---- MODULE Spec2Model ----
(***************************************************************************)
(* A model of the operation-execution and process-lifecycle core of the    *)
(* Godot MCP server: the supervised "run project" slot of ProjectHandler,  *)
(* the one-shot OperationExecutorImpl.executeOperation, the tool handlers  *)
(* and the call-tool request handler of GodotServer.                       *)
(*                                                                         *)
(* JavaScript strings are sequences of one-character strings; a message    *)
(* literal of the source is one token of such a sequence.                  *)
(***************************************************************************)
EXTENDS Integers, Sequences, FiniteSets, TLC

VARIABLES
    godotPath,      \* PathDetection.getGodotPath(): undefined (null) or the path
    activeProcess,  \* ProjectHandler.activeProcess: 0 (null) or a process id
    child,          \* the children spawned by run_project, by id
    overlap,        \* history: the children whose run request overlapped another
    last,           \* history: the step taken last, with what it returned
    exec,           \* the executeOperation calls, by id
    operand,        \* the argument a pure function is applied to
    returned,       \* <<>>, or <<the value the function returned>>
    processManager  \* ProcessManagerImpl: its activeProcess (0: null), the
                    \* children of its spawnProcess calls with their promises,
                    \* and history: the kill signals it sent, by process

supervisor == <<activeProcess, child, overlap>>
pure == <<operand, returned>>
vars ==
    <<godotPath, activeProcess, child, overlap, last, exec, operand, returned,
      processManager>>

(***************************************************************************)
(* Bounds of the exploration.                                              *)
(***************************************************************************)
MaxProcs == 2
MaxLines == 2
MaxCalls == 1
MaxText == 2
MaxPath == 4
MaxKey == 3
MaxEntries == 2
MaxSeq == 2
MaxKills == 2
MaxChunk == 3

Procs == 1..MaxProcs

(***************************************************************************)
(* JavaScript values.                                                      *)
(***************************************************************************)
undefined == <<"undefined">>

\* !v is false: v is neither undefined (or null) nor the empty string.
Truthy(v) == v # undefined /\ v # <<>>

\* String.prototype.includes
includes(s, sub) ==
    \E i \in 1..(Len(s) - Len(sub) + 1) : SubSeq(s, i, i + Len(sub) - 1) = sub

\* args.f of a possibly partial argument object
Get(args, f) == IF f \in DOMAIN args THEN args[f] ELSE undefined

\* request.params.arguments was not sent: every args.f throws a TypeError
NoArguments == [noArguments |-> TRUE]
Given(args) == "noArguments" \notin DOMAIN args

\* path.join(a, b)
join(a, b) == a \o <<"/">> \o b

\* Buffer.toString(): UTF-8 decoding of one chunk of bytes.  The bytes are the
\* ASCII characters themselves and the two bytes 0xC3 0xA9 of U+00E9; a byte
\* sequence that is no complete character decodes to U+FFFD.
RECURSIVE toString(_)
toString(data) ==
    IF data = <<>> THEN <<>>
    ELSE IF Head(data) = "0xC3"
         THEN IF Len(data) >= 2 /\ data[2] = "0xA9"
              THEN <<"U+00E9">> \o toString(SubSeq(data, 3, Len(data)))
              ELSE <<"U+FFFD">> \o toString(Tail(data))
    ELSE IF Head(data) = "0xA9" THEN <<"U+FFFD">> \o toString(Tail(data))
    ELSE <<Head(data)>> \o toString(Tail(data))

\* String.prototype.trim()
Whitespace == {" ", "\n", "\t", "\r"}

RECURSIVE trimStart(_)
trimStart(s) ==
    IF s # <<>> /\ Head(s) \in Whitespace THEN trimStart(Tail(s)) ELSE s

RECURSIVE trimEnd(_)
trimEnd(s) ==
    IF s # <<>> /\ s[Len(s)] \in Whitespace
    THEN trimEnd(SubSeq(s, 1, Len(s) - 1)) ELSE s

trim(s) == trimEnd(trimStart(s))

\* The match of /^\d+/ and parseInt(digits, 10)
Digits == <<"0", "1", "2", "3", "4", "5", "6", "7", "8", "9">>
IsDigit(c) == \E i \in 1..Len(Digits) : Digits[i] = c
DigitValue(c) == (CHOOSE i \in 1..Len(Digits) : Digits[i] = c) - 1

RECURSIVE leadingDigits(_)
leadingDigits(s) ==
    IF s # <<>> /\ IsDigit(Head(s))
    THEN <<Head(s)>> \o leadingDigits(Tail(s)) ELSE <<>>

RECURSIVE parseInt(_)
parseInt(ds) ==
    IF ds = <<>> THEN 0
    ELSE 10 * parseInt(SubSeq(ds, 1, Len(ds) - 1)) + DigitValue(ds[Len(ds)])

\* String.prototype.split('\n'): the pieces between the newlines, an empty
\* piece after a trailing newline included.
RECURSIVE split(_)
split(s) ==
    IF \A i \in 1..Len(s) : s[i] # "\n" THEN <<s>>
    ELSE LET i == CHOOSE j \in 1..Len(s) :
                      s[j] = "\n" /\ \A k \in 1..(j - 1) : s[k] # "\n"
         IN  <<SubSeq(s, 1, i - 1)>> \o split(SubSeq(s, i + 1, Len(s)))

(***************************************************************************)
(* The file system the handlers look at (existsSync).                      *)
(***************************************************************************)
FileSystem ==
    { <<"p">>,
      <<"p", "/", "project.godot">>,
      <<"p", "/", "s">>,
      <<"p", "/", "t">>,
      <<".", ".", "/", "p", "/", "project.godot">>,
      <<".", ".", "/", "p", "/", "s">> }

existsSync(path) == path \in FileSystem

(***************************************************************************)
(* PathValidator.validatePath                                              *)
(***************************************************************************)
\* A check that looks for '..' at the start of the path only.
validatePathAtStart(path) ==
    IF (~Truthy(path)) \/ (Len(path) >= 2 /\ SubSeq(path, 1, 2) = <<".", ".">>)
    THEN FALSE ELSE TRUE

validatePath(path) ==
    IF (~Truthy(path)) \/ includes(path, <<".", ".">>) THEN FALSE ELSE TRUE

(***************************************************************************)
(* ErrorHandler.createErrorResponse and the success responses.             *)
(* A ToolResponse is its error flag, its message text, the suggestions     *)
(* that follow the message, and (for get_debug_output and stop_project)    *)
(* the captured lines its JSON text carries.                               *)
(***************************************************************************)
createErrorResponse(message, possibleSolutions) ==
    [isError |-> TRUE, message |-> message, suggestions |-> possibleSolutions,
     output |-> <<>>, errors |-> <<>>]

textResponse(message) ==
    [isError |-> FALSE, message |-> message, suggestions |-> <<>>,
     output |-> <<>>, errors |-> <<>>]

linesResponse(message, output, errors) ==
    [isError |-> FALSE, message |-> message, suggestions |-> <<>>,
     output |-> output, errors |-> errors]

NoResponse == textResponse(<<>>)

(***************************************************************************)
(* What a handler call comes to: it returns a response, it throws an       *)
(* Error with a message, its promise rejects with a value that is no       *)
(* Error, its promise is pending, or (inside a handler) it goes on.        *)
(***************************************************************************)
Return(resp) == [k |-> "return", resp |-> resp, error |-> <<>>]
Throw(message) == [k |-> "throw", resp |-> NoResponse, error |-> message]
Reject(resp) == [k |-> "reject", resp |-> resp, error |-> <<>>]
Pending == [k |-> "pending", resp |-> NoResponse, error |-> <<>>]
Proceed == [k |-> "proceed", resp |-> NoResponse, error |-> <<>>]

(***************************************************************************)
(* GodotServer's call-tool request handler around a handler call: what the *)
(* client gets.  A response, nothing yet, or a fault that escaped.         *)
(***************************************************************************)
\* via: how the handler call ended ("return", "throw", "reject").
Response(via, resp) == [k |-> "response", via |-> via, resp |-> resp]
Fault(via) == [k |-> "fault", via |-> via, resp |-> NoResponse]
NoResult == [k |-> "none", via |-> "none", resp |-> NoResponse]

\* A request handler without the catch.
callToolNoCatch(outcome) ==
    CASE outcome.k = "return" -> Response("return", outcome.resp)
      [] outcome.k \in {"throw", "reject"} -> Fault(outcome.k)
      [] OTHER -> NoResult

callTool(outcome) ==
    CASE outcome.k = "return" -> Response("return", outcome.resp)
      [] outcome.k = "throw" ->
            Response("throw", createErrorResponse(
                <<"Tool execution failed: ">> \o outcome.error,
                <<"Check the tool parameters and try again">>))
      [] outcome.k = "reject" ->
            Response("reject", createErrorResponse(
                <<"Tool execution failed: ", "Unknown error">>,
                <<"Check the tool parameters and try again">>))
      [] OTHER -> NoResult

(***************************************************************************)
(* BaseHandler.validateProjectPath, validateProjectDirectory and           *)
(* validateFileExists: Proceed, or the Error thrown.                       *)
(***************************************************************************)
validateProjectPath(path) ==
    IF ~validatePath(path)
    THEN Throw(<<"Invalid project path - contains potentially unsafe characters">>)
    ELSE Proceed

validateProjectDirectory(projectPath) ==
    IF ~existsSync(join(projectPath, <<"project.godot">>))
    THEN Throw(<<"Not a valid Godot project: ">> \o projectPath)
    ELSE Proceed

validateFileExists(filePath) ==
    IF ~existsSync(filePath)
    THEN Throw(<<"File does not exist: ">> \o filePath)
    ELSE Proceed

\* Statements in sequence: the first that does not go on decides.
RECURSIVE First(_)
First(steps) ==
    IF steps = <<>> THEN Proceed
    ELSE IF Head(steps).k # "proceed" THEN Head(steps)
    ELSE First(Tail(steps))

GodotSuggestions ==
    <<"Ensure Godot is installed correctly",
      "Set GODOT_PATH environment variable to specify the correct path">>

AccessSuggestions ==
    <<"Ensure Godot is installed correctly",
      "Check if the GODOT_PATH environment variable is set correctly",
      "Verify the project path is accessible">>

\* A handler that goes on without a Godot path.
requireGodotPathProceeds == Proceed

\* if (!godotPath) return createErrorResponse(...)
requireGodotPath ==
    IF ~Truthy(godotPath)
    THEN Return(createErrorResponse(
             <<"Could not find a valid Godot executable path">>, GodotSuggestions))
    ELSE Proceed

(***************************************************************************)
(* The children of run_project.  st: "none" (not spawned yet), "spawning"  *)
(* (spawn() called, no event yet), "running" (its spawn event was          *)
(* delivered), "exited", "failed" (its error event was delivered).         *)
(* killed: process.kill() was called on it.  output, errors: the arrays    *)
(* its data listeners push to, kept for as long as the child runs (after   *)
(* its exit nothing refers to them).  prev: activeProcess when its request *)
(* was handled, kept until the request settles (history).                  *)
(***************************************************************************)
NoChild ==
    [st |-> "none", killed |-> FALSE, output |-> <<>>, errors |-> <<>>, prev |-> 0]

\* The chunks a child's stdout pipe and its stderr pipe may deliver.
StdoutChunks == { <<"a">>, <<"b", "\n">> }
StderrChunks == { <<"e">>, <<"f", "\n">> }

Captured == { p \in Procs : child[p].st # "none" }
InFlight == { p \in Procs : child[p].st = "spawning" }

\* A step: its name, the child it is about (0: none), activeProcess before it,
\* the arguments of the call, the children the step spawned, activeProcess
\* when the request now settling was handled, what the client gets, and the
\* ExecutionResult the handler was given (<<>>: none).
Step(name, id, args, spawns, prev, result) ==
    [step |-> name, id |-> id, pre |-> activeProcess, args |-> args,
     spawns |-> spawns, prev |-> prev, result |-> result, got |-> <<>>]

\* A child process spawned: by what call, and with what arguments (the
\* argument vector of a spawn(), the operation, parameters and project path
\* of an executeOperation()).
Spawned(by, args) == [by |-> by, args |-> args]

(***************************************************************************)
(* ProjectHandler.handleRunProject, up to the spawn() call.                *)
(***************************************************************************)
RunArgs ==
    {NoArguments}
    \cup [projectPath : {undefined, <<"p">>, <<"q">>, <<".", ".", "/", "p">>},
          scene : {undefined}]
    \cup [projectPath : {<<"p">>}, scene : {<<"s">>, <<".", ".", "/", "s">>}]

runProjectChecks(args) ==
    IF ~Given(args) THEN Throw(<<"Cannot read properties of undefined">>)
    ELSE IF ~Truthy(args.projectPath)
    THEN Return(createErrorResponse(
             <<"Project path is required">>,
             <<"Provide a valid path to a Godot project directory">>))
    ELSE First(<<validateProjectPath(args.projectPath),
                 validateProjectDirectory(args.projectPath),
                 requireGodotPath>>)

\* An argument vector that takes the scene as it was given.
runProjectArgvUnchecked(args) ==
    << <<"-d">>, <<"--path">>, args.projectPath >>
    \o (IF Truthy(args.scene) THEN <<args.scene>> ELSE <<>>)

runProjectArgv(args) ==
    << <<"-d">>, <<"--path">>, args.projectPath >>
    \o (IF Truthy(args.scene) /\ validatePath(args.scene)
        THEN <<args.scene>> ELSE <<>>)

\* A kill() that sends nothing.
killSendsNothing(ch, p) == ch

\* this.activeProcess.process.kill()
kill(ch, p) == IF p = 0 THEN ch ELSE [ch EXCEPT ![p].killed = TRUE]

\* A handler that signals the process in the slot before it checks the call.
handleRunProjectKillsFirst(args) ==
    LET checks == runProjectChecks(args) IN
    IF checks.k # "proceed"
    THEN /\ last' = Step("run_project", 0, args, <<>>, 0, callTool(checks))
         /\ child' = kill(child, activeProcess)
         /\ UNCHANGED <<godotPath, activeProcess, overlap>>
    ELSE \E p \in Procs :
         /\ child[p].st = "none"
         /\ \A q \in Procs : q < p => child[q].st # "none"
         /\ child' = [kill(child, activeProcess) EXCEPT
                         ![p] = [NoChild EXCEPT !.st = "spawning",
                                                !.prev = activeProcess]]
         /\ overlap' = IF InFlight = {} THEN overlap
                       ELSE overlap \cup InFlight \cup {p}
         /\ last' = Step("run_project", p, args,
                         <<Spawned("spawn", runProjectArgv(args))>>, 0,
                         callTool(Pending))
         /\ UNCHANGED <<godotPath, activeProcess>>

handleRunProject(args) ==
    LET checks == runProjectChecks(args) IN
    IF checks.k # "proceed"
    THEN /\ last' = Step("run_project", 0, args, <<>>, 0, callTool(checks))
         /\ UNCHANGED <<godotPath, activeProcess, child, overlap>>
    ELSE \E p \in Procs :
         /\ child[p].st = "none"
         /\ \A q \in Procs : q < p => child[q].st # "none"
         /\ child' = [kill(child, activeProcess) EXCEPT
                         ![p] = [NoChild EXCEPT !.st = "spawning",
                                                !.prev = activeProcess]]
         /\ overlap' = IF InFlight = {} THEN overlap
                       ELSE overlap \cup InFlight \cup {p}
         /\ last' = Step("run_project", p, args,
                         <<Spawned("spawn", runProjectArgv(args))>>, 0,
                         callTool(Pending))
         /\ UNCHANGED <<godotPath, activeProcess>>

(***************************************************************************)
(* The listeners handleRunProject puts on the child.                       *)
(***************************************************************************)
\* process.once('spawn'): the run request resolves.
onSpawn(p) ==
    /\ child[p].st = "spawning"
    /\ child' = [child EXCEPT ![p].st = "running", ![p].prev = 0]
    /\ activeProcess' = p
    /\ last' = Step("spawn", p, NoArguments, <<>>, child[p].prev,
                    callTool(Return(textResponse(
                        <<"Godot project started in debug mode. Use get_debug_output to see output.">>))))
    /\ UNCHANGED <<godotPath, overlap>>

\* A child that is gone: nothing refers to its arrays any more.
Gone(p, st) == [NoChild EXCEPT !.st = st, !.killed = child[p].killed]

\* process.once('error'): the spawn failed with the OS error ENOENT; the run
\* request rejects with a ToolResponse.
onError(p) ==
    /\ child[p].st = "spawning"
    /\ child' = [child EXCEPT ![p] = Gone(p, "failed")]
    /\ activeProcess' = IF activeProcess # 0 /\ activeProcess = p
                        THEN 0 ELSE activeProcess
    /\ overlap' = overlap \ {p}
    /\ last' = Step("error", p, NoArguments, <<>>, child[p].prev,
                    callTool(Reject(createErrorResponse(
                        <<"Failed to run Godot project: ", "spawn ENOENT">>,
                        AccessSuggestions))))
    /\ UNCHANGED godotPath

\* An exit listener that leaves the exited process in the slot.
onExitKeepsSlot(p) ==
    /\ child[p].st = "running"
    /\ child' = [child EXCEPT ![p] = Gone(p, "exited")]
    /\ overlap' = overlap \ {p}
    /\ last' = Step("exit", p, NoArguments, <<>>, 0, NoResult)
    /\ UNCHANGED <<godotPath, activeProcess>>

\* An exit listener that empties the slot whatever process is in it.
onExitClearsSlot(p) ==
    /\ child[p].st = "running"
    /\ child' = [child EXCEPT ![p] = Gone(p, "exited")]
    /\ activeProcess' = 0
    /\ overlap' = overlap \ {p}
    /\ last' = Step("exit", p, NoArguments, <<>>, 0, NoResult)
    /\ UNCHANGED godotPath

\* process.on('exit')
onExit(p) ==
    /\ child[p].st = "running"
    /\ child' = [child EXCEPT ![p] = Gone(p, "exited")]
    /\ activeProcess' = IF activeProcess # 0 /\ activeProcess = p
                        THEN 0 ELSE activeProcess
    /\ overlap' = overlap \ {p}
    /\ last' = Step("exit", p, NoArguments, <<>>, 0, NoResult)
    /\ UNCHANGED godotPath

CapturedLines ==
    LET RECURSIVE Sum(_)
        Sum(S) == IF S = {} THEN 0
                  ELSE LET p == CHOOSE q \in S : TRUE
                       IN  Len(child[p].output) + Len(child[p].errors)
                           + Sum(S \ {p})
    IN  Sum(Procs)

\* process.stdout.on('data')
onStdoutData(p, data) ==
    /\ child[p].st = "running"
    /\ CapturedLines + Len(split(toString(data))) <= MaxLines
    /\ child' = [child EXCEPT
                    ![p].output = child[p].output \o split(toString(data))]
    /\ last' = Step("stdout", p, NoArguments, <<>>, 0, NoResult)
    /\ UNCHANGED <<godotPath, activeProcess, overlap>>

\* process.stderr.on('data')
onStderrData(p, data) ==
    /\ child[p].st = "running"
    /\ CapturedLines + Len(split(toString(data))) <= MaxLines
    /\ child' = [child EXCEPT
                    ![p].errors = child[p].errors \o split(toString(data))]
    /\ last' = Step("stderr", p, NoArguments, <<>>, 0, NoResult)
    /\ UNCHANGED <<godotPath, activeProcess, overlap>>

(***************************************************************************)
(* ProjectHandler.handleGetDebugOutput                                     *)
(***************************************************************************)
\* A read that empties the buffers it has read.
handleGetDebugOutputDrains ==
    /\ last' = Step("get_debug_output", activeProcess, NoArguments, <<>>, 0,
                    callTool(
                      IF activeProcess = 0
                      THEN Return(createErrorResponse(
                               <<"No active Godot process.">>,
                               <<"Use run_project to start a Godot project first",
                                 "Check if the Godot process crashed unexpectedly">>))
                      ELSE Return(linesResponse(
                               <<>>,
                               child[activeProcess].output,
                               child[activeProcess].errors))))
    /\ child' = IF activeProcess = 0 THEN child
                ELSE [child EXCEPT ![activeProcess].output = <<>>,
                                   ![activeProcess].errors = <<>>]
    /\ UNCHANGED <<godotPath, activeProcess, overlap>>

handleGetDebugOutput ==
    /\ last' = Step("get_debug_output", activeProcess, NoArguments, <<>>, 0,
                    callTool(
                      IF activeProcess = 0
                      THEN Return(createErrorResponse(
                               <<"No active Godot process.">>,
                               <<"Use run_project to start a Godot project first",
                                 "Check if the Godot process crashed unexpectedly">>))
                      ELSE Return(linesResponse(
                               <<>>,
                               child[activeProcess].output,
                               child[activeProcess].errors))))
    /\ UNCHANGED <<godotPath, activeProcess, child, overlap>>

(***************************************************************************)
(* ProjectHandler.handleStopProject                                        *)
(***************************************************************************)
\* A stop that forgets to clear the slot.
handleStopProjectKeepsSlot ==
    IF activeProcess = 0
    THEN /\ last' = Step("stop_project", 0, NoArguments, <<>>, 0,
                         callTool(Return(createErrorResponse(
                             <<"No active Godot process to stop.">>,
                             <<"Use run_project to start a Godot project first",
                               "The process may have already terminated">>))))
         /\ UNCHANGED <<godotPath, activeProcess, child, overlap>>
    ELSE /\ child' = kill(child, activeProcess)
         /\ last' = Step("stop_project", activeProcess, NoArguments, <<>>, 0,
                         callTool(Return(linesResponse(
                             <<"Godot project stopped">>,
                             child[activeProcess].output,
                             child[activeProcess].errors))))
         /\ UNCHANGED <<godotPath, activeProcess, overlap>>

\* A stop without the check for an empty slot: this.activeProcess.process
\* throws a TypeError on null.
handleStopProjectNoIdleCheck ==
    IF activeProcess = 0
    THEN /\ last' = Step("stop_project", 0, NoArguments, <<>>, 0,
                         callTool(Throw(<<"Cannot read properties of null">>)))
         /\ UNCHANGED <<godotPath, activeProcess, child, overlap>>
    ELSE /\ child' = kill(child, activeProcess)
         /\ activeProcess' = 0
         /\ last' = Step("stop_project", activeProcess, NoArguments, <<>>, 0,
                         callTool(Return(linesResponse(
                             <<"Godot project stopped">>,
                             child[activeProcess].output,
                             child[activeProcess].errors))))
         /\ UNCHANGED <<godotPath, overlap>>

handleStopProject ==
    IF activeProcess = 0
    THEN /\ last' = Step("stop_project", 0, NoArguments, <<>>, 0,
                         callTool(Return(createErrorResponse(
                             <<"No active Godot process to stop.">>,
                             <<"Use run_project to start a Godot project first",
                               "The process may have already terminated">>))))
         /\ UNCHANGED <<godotPath, activeProcess, child, overlap>>
    ELSE /\ child' = kill(child, activeProcess)
         /\ activeProcess' = 0
         /\ last' = Step("stop_project", activeProcess, NoArguments, <<>>, 0,
                         callTool(Return(linesResponse(
                             <<"Godot project stopped">>,
                             child[activeProcess].output,
                             child[activeProcess].errors))))
         /\ UNCHANGED <<godotPath, overlap>>

(***************************************************************************)
(* OperationExecutorImpl.executeOperation.  A call is the child it spawned *)
(* and the promise it returned.                                            *)
(*   st       "none" (not called), "unspawned" (it threw before spawn()),  *)
(*            "open" (child spawned, not closed), "closed"                 *)
(*   fails    the spawn fails: the child emits error, then close           *)
(*   outText, errText   the text the child writes in all (history)         *)
(*   outPipe, errPipe   the bytes of it not delivered yet                  *)
(*   code     the code of the close event: none (null) or <<n>> (history)  *)
(*   stdout, stderr     the accumulators of the data listeners             *)
(*   promise  "pending", "resolved", "rejected"                            *)
(*   result   none, or <<the ExecutionResult it resolved with>>            *)
(*   error    the message of the Error it rejected with                    *)
(*   spawns   the number of spawn() calls made for it (history)            *)
(***************************************************************************)
Calls == 1..MaxCalls

none == <<>>

NoCall ==
    [st |-> "none", fails |-> FALSE, outText |-> <<>>, errText |-> <<>>,
     outPipe |-> <<>>, errPipe |-> <<>>, code |-> none,
     stdout |-> <<>>, stderr |-> <<>>,
     promise |-> "pending", result |-> none, error |-> <<>>, spawns |-> 0]

\* The characters a child writes, and the bytes of their UTF-8 encoding.
Chars == {"a", "U+00E9"}

RECURSIVE Encode(_)
Encode(text) ==
    IF text = <<>> THEN <<>>
    ELSE (IF Head(text) = "U+00E9" THEN <<"0xC3", "0xA9">> ELSE <<Head(text)>>)
         \o Encode(Tail(text))

\* The texts of at most n characters.
RECURSIVE Texts(_)
Texts(n) ==
    IF n = 0 THEN {<<>>}
    ELSE Texts(n - 1)
         \cup {t \o <<c>> : t \in {u \in Texts(n - 1) : Len(u) = n - 1}, c \in Chars}

\* The codes of a close event: null (the child was ended by a signal), 0, 1,
\* or the negative errno of a failed spawn.
ENOENT == 0 - 2
CloseCodes == {none, <<0>>, <<1>>}

\* A close handler that reports a child ended by a signal with code 1.
orOne(code) == IF code = none THEN 1 ELSE code[1]

\* code || 0
orZero(code) == IF code = none \/ code = <<0>> THEN 0 ELSE code[1]

ExecutionResult(stdout, stderr, code) ==
    [stdout |-> stdout, stderr |-> stderr, exitCode |-> orZero(code)]

\* resolve(value) and reject(error): a promise settles once, the first call
\* wins and every later call does nothing.
\* A resolve that settles again.
resolveOverwrites(call, value) ==
    [call EXCEPT !.promise = "resolved", !.result = <<value>>]

resolve(call, value) ==
    IF call.promise # "pending" THEN call
    ELSE [call EXCEPT !.promise = "resolved", !.result = <<value>>]

reject(call, error) ==
    IF call.promise # "pending" THEN call
    ELSE [call EXCEPT !.promise = "rejected", !.error = error]

\* The call, up to the return of the promise.
executeOperation(c, fails, outText, errText) ==
    /\ exec[c].st = "none"
    /\ \A d \in Calls : d < c => exec[d].st # "none"
    /\ IF ~Truthy(godotPath)
       THEN /\ ~fails /\ outText = <<>> /\ errText = <<>>
            /\ exec' = [exec EXCEPT ![c] =
                    reject([NoCall EXCEPT !.st = "unspawned"],
                           <<"Could not find a valid Godot executable path">>)]
       ELSE /\ fails => (outText = <<>> /\ errText = <<>>)
            /\ exec' = [exec EXCEPT ![c] =
                    [NoCall EXCEPT !.st = "open", !.fails = fails, !.spawns = 1,
                                   !.outText = outText, !.errText = errText,
                                   !.outPipe = Encode(outText),
                                   !.errPipe = Encode(errText)]]
    /\ UNCHANGED <<godotPath, supervisor, last, pure, processManager>>

\* A stdout listener that appends to one buffer the open calls share.
onExecStdoutShared(c, n) ==
    /\ exec[c].st = "open"
    /\ n \in 1..Len(exec[c].outPipe)
    /\ exec' = [d \in DOMAIN exec |->
                   IF d = c
                   THEN [exec[c] EXCEPT
                            !.stdout = exec[c].stdout
                                       \o toString(SubSeq(exec[c].outPipe, 1, n)),
                            !.outPipe = SubSeq(exec[c].outPipe, n + 1,
                                               Len(exec[c].outPipe))]
                   ELSE IF exec[d].st = "open"
                   THEN [exec[d] EXCEPT
                            !.stdout = exec[d].stdout
                                       \o toString(SubSeq(exec[c].outPipe, 1, n))]
                   ELSE exec[d]]
    /\ UNCHANGED <<godotPath, supervisor, last, pure, processManager>>

\* process.stdout.on('data'): the next n bytes of the pipe arrive as a chunk.
onExecStdout(c, n) ==
    /\ exec[c].st = "open"
    /\ n \in 1..Len(exec[c].outPipe)
    /\ exec' = [exec EXCEPT
                   ![c].stdout = exec[c].stdout
                                 \o toString(SubSeq(exec[c].outPipe, 1, n)),
                   ![c].outPipe = SubSeq(exec[c].outPipe, n + 1,
                                         Len(exec[c].outPipe))]
    /\ UNCHANGED <<godotPath, supervisor, last, pure, processManager>>

\* process.stderr.on('data')
onExecStderr(c, n) ==
    /\ exec[c].st = "open"
    /\ n \in 1..Len(exec[c].errPipe)
    /\ exec' = [exec EXCEPT
                   ![c].stderr = exec[c].stderr
                                 \o toString(SubSeq(exec[c].errPipe, 1, n)),
                   ![c].errPipe = SubSeq(exec[c].errPipe, n + 1,
                                         Len(exec[c].errPipe))]
    /\ UNCHANGED <<godotPath, supervisor, last, pure, processManager>>

\* An error listener that spawns the child once more.
onExecErrorRetries(c) ==
    /\ exec[c].st = "open"
    /\ exec[c].fails
    /\ exec[c].error = <<>>
    /\ exec' = [exec EXCEPT ![c] =
            [reject(exec[c], <<"spawn ENOENT">>) EXCEPT !.spawns = @ + 1]]
    /\ UNCHANGED <<godotPath, supervisor, last, pure, processManager>>

\* process.on('error'): the spawn failed.
onExecError(c) ==
    /\ exec[c].st = "open"
    /\ exec[c].fails
    /\ exec[c].error = <<>>
    /\ exec' = [exec EXCEPT ![c] = reject(exec[c], <<"spawn ENOENT">>)]
    /\ UNCHANGED <<godotPath, supervisor, last, pure, processManager>>

\* A close listener that does not settle the call.
onExecCloseForgets(c, code) ==
    /\ exec[c].st = "open"
    /\ exec[c].outPipe = <<>> /\ exec[c].errPipe = <<>>
    /\ IF exec[c].fails
       THEN exec[c].error # <<>> /\ code = <<ENOENT>>
       ELSE code \in CloseCodes
    /\ exec' = [exec EXCEPT ![c] = [exec[c] EXCEPT !.st = "closed", !.code = code]]
    /\ UNCHANGED <<godotPath, supervisor, last, pure, processManager>>

\* process.on('close'): the child has ended and both pipes are drained.  A
\* child that failed to spawn closes after its error event, with the errno.
onExecClose(c, code) ==
    /\ exec[c].st = "open"
    /\ exec[c].outPipe = <<>> /\ exec[c].errPipe = <<>>
    /\ IF exec[c].fails
       THEN exec[c].error # <<>> /\ code = <<ENOENT>>
       ELSE code \in CloseCodes
    /\ exec' = [exec EXCEPT ![c] =
            resolve([exec[c] EXCEPT !.st = "closed", !.code = code],
                    ExecutionResult(exec[c].stdout, exec[c].stderr, code))]
    /\ UNCHANGED <<godotPath, supervisor, last, pure, processManager>>

(***************************************************************************)
(* The one-shot tool handlers.  A handler call comes to an outcome and the *)
(* children it spawned on the way.  What the environment decides is given: *)
(*   version  how execAsync('"godot" --version') settled                   *)
(*   call     how the executeOperation call settled (a settled call)       *)
(*   spawns   whether the spawn() of the editor succeeded                  *)
(***************************************************************************)
\* got: none, or <<the ExecutionResult the handler was given>>.
H(outcome, spawns) == [outcome |-> outcome, spawns |-> spawns, got |-> <<>>]

TypeErrorNoArguments == Throw(<<"Cannot read properties of undefined">>)

\* The settled calls: the child closed with some output and some code, or the
\* spawn failed.
SettledCalls ==
    { resolve([NoCall EXCEPT !.st = "closed", !.code = code,
                             !.outText = so, !.errText = se,
                             !.stdout = so, !.stderr = se],
              ExecutionResult(so, se, code)) :
          so \in {<<>>, <<"o">>}, se \in {<<>>, <<"e">>}, code \in CloseCodes }
    \cup { reject([NoCall EXCEPT !.st = "closed", !.fails = TRUE,
                                 !.code = <<ENOENT>>],
                  <<"spawn ENOENT">>) }

\* execAsync('"godot" --version'): the stdout of the command, or its Error.
Resolved(stdout) == [k |-> "resolved", stdout |-> stdout, error |-> <<>>]
Rejected(message) == [k |-> "rejected", stdout |-> <<>>, error |-> message]

VersionProbes ==
    { Resolved(<<"4", ".", "4", "\n">>), Resolved(<<"4", ".", "3", "\n">>),
      Rejected(<<"Command failed">>) }

VersionProbe == Spawned("exec", << godotPath, <<"--version">> >>)

\* A handler that takes a stderr for no failure.
operationResponseIgnoresStderr(failure, suggestions, success, result) ==
    IF result.exitCode # 0
    THEN Return(createErrorResponse(
             failure \o (IF Truthy(result.stderr) THEN result.stderr
                         ELSE <<"Unknown error">>),
             suggestions))
    ELSE Return(textResponse(success))

\* if (exitCode !== 0 || stderr) ... of the seven handlers
operationResponse(failure, suggestions, success, result) ==
    IF result.exitCode # 0 \/ Truthy(result.stderr)
    THEN Return(createErrorResponse(
             failure \o (IF Truthy(result.stderr) THEN result.stderr
                         ELSE <<"Unknown error">>),
             suggestions))
    ELSE Return(textResponse(success))

\* const { stdout, stderr, exitCode } = await ...: the stdout of a call that
\* resolved.
stdoutOf(call) == IF call.result = none THEN <<>> ELSE call.result[1].stdout

\* await this.operationExecutor.executeOperation(...) in the try block of a
\* handler, and its catch.  success: the success text of the handler.
awaitOperation(operation, params, projectPath, failure, suggestions, success, call) ==
    IF ~Truthy(godotPath)
    THEN H(Return(createErrorResponse(
               failure \o <<"Could not find a valid Godot executable path">>,
               AccessSuggestions)), <<>>)
    ELSE LET spawned == <<Spawned("executeOperation",
                                  [operation |-> operation, params |-> params,
                                   projectPath |-> projectPath])>>
         IN  IF call.promise = "rejected"
             THEN H(Return(createErrorResponse(failure \o call.error,
                                               AccessSuggestions)), spawned)
             ELSE [H(operationResponse(failure, suggestions, success,
                                       call.result[1]), spawned)
                   EXCEPT !.got = call.result]

(***************************************************************************)
(* SceneHandler                                                            *)
(***************************************************************************)
createSceneSuccess(args, stdout) ==
    <<"Scene created successfully at: ">> \o args.scenePath
    \o <<"\n\nOutput: ">> \o stdout

handleCreateScene(args, call) ==
    IF ~Given(args) THEN H(TypeErrorNoArguments, <<>>)
    ELSE IF ~Truthy(args.projectPath) \/ ~Truthy(args.scenePath)
    THEN H(Return(createErrorResponse(
               <<"Project path and scene path are required">>,
               <<"Provide valid paths for both the project and the scene">>)),
           <<>>)
    ELSE LET checks == First(<<validateProjectPath(args.projectPath),
                               validateProjectPath(args.scenePath),
                               validateProjectDirectory(args.projectPath)>>)
             success == createSceneSuccess(args, stdoutOf(call))
         IN  IF checks.k # "proceed" THEN H(checks, <<>>)
             ELSE awaitOperation(
                      <<"create_scene">>,
                      [scenePath |-> args.scenePath,
                       rootNodeType |-> IF Truthy(args.rootNodeType)
                                        THEN args.rootNodeType
                                        ELSE <<"Node2D">>],
                      args.projectPath,
                      <<"Failed to create scene: ">>,
                      <<"Check if the root node type is valid",
                        "Ensure you have write permissions to the scene path",
                        "Verify the scene path is valid">>,
                      success, call)

addNodeSuccess(args, stdout) ==
    <<"Node '">> \o args.nodeName \o <<"' of type '">> \o args.nodeType
    \o <<"' added successfully to '">> \o args.scenePath
    \o <<"'.\n\nOutput: ">> \o stdout

\* The optional parameters that are given, added to the required ones.
withOptional(params, args, fields) ==
    [f \in DOMAIN params \cup {g \in fields : Truthy(args[g])} |->
        IF f \in DOMAIN params THEN params[f] ELSE args[f]]

handleAddNode(args, call) ==
    IF ~Given(args) THEN H(TypeErrorNoArguments, <<>>)
    ELSE IF \/ ~Truthy(args.projectPath) \/ ~Truthy(args.scenePath)
            \/ ~Truthy(args.nodeType) \/ ~Truthy(args.nodeName)
    THEN H(Return(createErrorResponse(
               <<"Missing required parameters">>,
               <<"Provide projectPath, scenePath, nodeType, and nodeName">>)),
           <<>>)
    ELSE LET checks == First(<<validateProjectPath(args.projectPath),
                               validateProjectPath(args.scenePath),
                               validateProjectDirectory(args.projectPath),
                               validateFileExists(
                                   join(args.projectPath, args.scenePath))>>)
             success == addNodeSuccess(args, stdoutOf(call))
         IN  IF checks.k # "proceed" THEN H(checks, <<>>)
             ELSE awaitOperation(
                      <<"add_node">>,
                      withOptional([scenePath |-> args.scenePath,
                                    nodeType |-> args.nodeType,
                                    nodeName |-> args.nodeName],
                                   args, {"parentNodePath", "properties"}),
                      args.projectPath,
                      <<"Failed to add node: ">>,
                      <<"Check if the node type is valid",
                        "Ensure the parent node path exists",
                        "Verify the scene file is valid">>,
                      success, call)

saveSceneSuccess(args, stdout) ==
    <<"Scene saved successfully to: ">>
    \o (IF Truthy(args.newPath) THEN args.newPath ELSE args.scenePath)
    \o <<"\n\nOutput: ">> \o stdout

handleSaveScene(args, call) ==
    IF ~Given(args) THEN H(TypeErrorNoArguments, <<>>)
    ELSE IF ~Truthy(args.projectPath) \/ ~Truthy(args.scenePath)
    THEN H(Return(createErrorResponse(
               <<"Missing required parameters">>,
               <<"Provide projectPath and scenePath">>)), <<>>)
    ELSE LET checks == First(<<
                 validateProjectPath(args.projectPath),
                 validateProjectPath(args.scenePath),
                 IF Truthy(args.newPath) /\ ~validatePath(args.newPath)
                 THEN Return(createErrorResponse(
                          <<"Invalid new path">>,
                          <<"Provide a valid new path without \"..\" or other potentially unsafe characters">>))
                 ELSE Proceed,
                 validateProjectDirectory(args.projectPath),
                 validateFileExists(join(args.projectPath, args.scenePath))>>)
             success == saveSceneSuccess(args, stdoutOf(call))
         IN  IF checks.k # "proceed" THEN H(checks, <<>>)
             ELSE awaitOperation(
                      <<"save_scene">>,
                      withOptional([scenePath |-> args.scenePath],
                                   args, {"newPath"}),
                      args.projectPath,
                      <<"Failed to save scene: ">>,
                      <<"Check if the scene file is valid",
                        "Ensure you have write permissions to the output path",
                        "Verify the scene can be properly packed">>,
                      success, call)

(***************************************************************************)
(* ResourceHandler                                                         *)
(***************************************************************************)
loadSpriteSuccess(args, stdout) ==
    <<"Sprite loaded successfully with texture: ">> \o args.texturePath
    \o <<"\n\nOutput: ">> \o stdout

handleLoadSprite(args, call) ==
    IF ~Given(args) THEN H(TypeErrorNoArguments, <<>>)
    ELSE IF \/ ~Truthy(args.projectPath) \/ ~Truthy(args.scenePath)
            \/ ~Truthy(args.nodePath) \/ ~Truthy(args.texturePath)
    THEN H(Return(createErrorResponse(
               <<"Missing required parameters">>,
               <<"Provide projectPath, scenePath, nodePath, and texturePath">>)),
           <<>>)
    ELSE LET checks == First(<<validateProjectPath(args.projectPath),
                               validateProjectPath(args.scenePath),
                               validateProjectPath(args.nodePath),
                               validateProjectPath(args.texturePath),
                               validateProjectDirectory(args.projectPath),
                               validateFileExists(
                                   join(args.projectPath, args.scenePath)),
                               validateFileExists(
                                   join(args.projectPath, args.texturePath))>>)
             success == loadSpriteSuccess(args, stdoutOf(call))
         IN  IF checks.k # "proceed" THEN H(checks, <<>>)
             ELSE awaitOperation(
                      <<"load_sprite">>,
                      [scenePath |-> args.scenePath,
                       nodePath |-> args.nodePath,
                       texturePath |-> args.texturePath],
                      args.projectPath,
                      <<"Failed to load sprite: ">>,
                      <<"Check if the node path is correct",
                        "Ensure the node is a Sprite2D, Sprite3D, or TextureRect",
                        "Verify the texture file is a valid image format">>,
                      success, call)

exportMeshLibrarySuccess(args, stdout) ==
    <<"MeshLibrary exported successfully to: ">> \o args.outputPath
    \o <<"\n\nOutput: ">> \o stdout

handleExportMeshLibrary(args, call) ==
    IF ~Given(args) THEN H(TypeErrorNoArguments, <<>>)
    ELSE IF \/ ~Truthy(args.projectPath) \/ ~Truthy(args.scenePath)
            \/ ~Truthy(args.outputPath)
    THEN H(Return(createErrorResponse(
               <<"Missing required parameters">>,
               <<"Provide projectPath, scenePath, and outputPath">>)), <<>>)
    ELSE LET checks == First(<<validateProjectPath(args.projectPath),
                               validateProjectPath(args.scenePath),
                               validateProjectPath(args.outputPath),
                               validateProjectDirectory(args.projectPath),
                               validateFileExists(
                                   join(args.projectPath, args.scenePath))>>)
             success == exportMeshLibrarySuccess(args, stdoutOf(call))
         IN  IF checks.k # "proceed" THEN H(checks, <<>>)
             ELSE awaitOperation(
                      <<"export_mesh_library">>,
                      withOptional([scenePath |-> args.scenePath,
                                    outputPath |-> args.outputPath],
                                   args, {"meshItemNames"}),
                      args.projectPath,
                      <<"Failed to export mesh library: ">>,
                      <<"Check if the scene contains valid 3D meshes",
                        "Ensure the output path is valid",
                        "Verify the scene file is valid">>,
                      success, call)

(***************************************************************************)
(* UidHandler                                                              *)
(***************************************************************************)
\* A comparison that asks 4 or more of the major and of the minor number.
isGodotMinor4OrLater(version) ==
    LET major == leadingDigits(version)
        rest == SubSeq(version, Len(major) + 2, Len(version))
        minor == leadingDigits(rest)
    IN  IF /\ major # <<>>
           /\ Len(version) > Len(major) /\ version[Len(major) + 1] = "."
           /\ minor # <<>>
        THEN parseInt(major) >= 4 /\ parseInt(minor) >= 4
        ELSE FALSE

isGodot44OrLater(version) ==
    LET major == leadingDigits(version)
        rest == SubSeq(version, Len(major) + 2, Len(version))
        minor == leadingDigits(rest)
    IN  IF /\ major # <<>>
           /\ Len(version) > Len(major) /\ version[Len(major) + 1] = "."
           /\ minor # <<>>
        THEN \/ parseInt(major) > 4
             \/ (parseInt(major) = 4 /\ parseInt(minor) >= 4)
        ELSE FALSE

\* The try block of the two UID handlers up to the operation: the version of
\* Godot is asked for and must be 4.4 or later.
uidVersionCheck(failure, version) ==
    IF ~Truthy(godotPath)
    THEN H(Return(createErrorResponse(
               <<"Could not find a valid Godot executable path">>,
               GodotSuggestions)), <<>>)
    ELSE IF version.k = "rejected"
    THEN H(Return(createErrorResponse(failure \o version.error,
                                      AccessSuggestions)), <<VersionProbe>>)
    ELSE IF ~isGodot44OrLater(trim(version.stdout))
    THEN H(Return(createErrorResponse(
               <<"UIDs are only supported in Godot 4.4 or later. Current version: ">>
               \o trim(version.stdout),
               <<"Upgrade to Godot 4.4 or later to use UIDs",
                 "Use resource paths instead of UIDs for this version of Godot">>)),
           <<VersionProbe>>)
    ELSE H(Proceed, <<VersionProbe>>)

getUidSuccess(args, stdout) ==
    <<"UID for ">> \o args.filePath \o <<": ">> \o trim(stdout)

handleGetUid(args, version, call) ==
    IF ~Given(args) THEN H(TypeErrorNoArguments, <<>>)
    ELSE IF ~Truthy(args.projectPath) \/ ~Truthy(args.filePath)
    THEN H(Return(createErrorResponse(
               <<"Missing required parameters">>,
               <<"Provide projectPath and filePath">>)), <<>>)
    ELSE LET checks == First(<<validateProjectPath(args.projectPath),
                               validateProjectPath(args.filePath),
                               validateProjectDirectory(args.projectPath),
                               validateFileExists(
                                   join(args.projectPath, args.filePath))>>)
             probe == uidVersionCheck(<<"Failed to get UID: ">>, version)
             success == getUidSuccess(args, stdoutOf(call))
         IN  IF checks.k # "proceed" THEN H(checks, <<>>)
             ELSE IF probe.outcome.k # "proceed" THEN probe
             ELSE LET op == awaitOperation(
                                <<"get_uid">>,
                                [filePath |-> args.filePath],
                                args.projectPath,
                                <<"Failed to get UID: ">>,
                                <<"Check if the file is a valid Godot resource",
                                  "Ensure the file path is correct">>,
                                success, call)
                  IN  [op EXCEPT !.spawns = probe.spawns \o op.spawns]

updateProjectUidsSuccess(stdout) ==
    <<"Project UIDs updated successfully.\n\nOutput: ">> \o stdout

handleUpdateProjectUids(args, version, call) ==
    IF ~Given(args) THEN H(TypeErrorNoArguments, <<>>)
    ELSE IF ~Truthy(args.projectPath)
    THEN H(Return(createErrorResponse(
               <<"Project path is required">>,
               <<"Provide a valid path to a Godot project directory">>)), <<>>)
    ELSE LET checks == First(<<validateProjectPath(args.projectPath),
                               validateProjectDirectory(args.projectPath)>>)
             probe == uidVersionCheck(<<"Failed to update project UIDs: ">>,
                                      version)
         IN  IF checks.k # "proceed" THEN H(checks, <<>>)
             ELSE IF probe.outcome.k # "proceed" THEN probe
             ELSE LET op == awaitOperation(
                                <<"resave_resources">>,
                                [projectPath |-> args.projectPath],
                                args.projectPath,
                                <<"Failed to update project UIDs: ">>,
                                <<"Check if the project is valid",
                                  "Ensure you have write permissions to the project directory">>,
                                updateProjectUidsSuccess(stdoutOf(call)), call)
                  IN  [op EXCEPT !.spawns = probe.spawns \o op.spawns]

(***************************************************************************)
(* EditorHandler                                                           *)
(***************************************************************************)
handleLaunchEditor(args, spawns) ==
    IF ~Given(args) THEN H(TypeErrorNoArguments, <<>>)
    ELSE IF ~Truthy(args.projectPath)
    THEN H(Return(createErrorResponse(
               <<"Project path is required">>,
               <<"Provide a valid path to a Godot project directory">>)), <<>>)
    ELSE LET checks == First(<<validateProjectPath(args.projectPath),
                               validateProjectDirectory(args.projectPath),
                               requireGodotPath>>)
             spawned == <<Spawned("spawn", << <<"-e">>, <<"--path">>,
                                             args.projectPath >>)>>
         IN  IF checks.k # "proceed" THEN H(checks, <<>>)
             ELSE IF spawns
             THEN H(Return(textResponse(
                        <<"Godot editor launched successfully for project at ">>
                        \o args.projectPath \o <<".">>)), spawned)
             ELSE H(Reject(createErrorResponse(
                        <<"Failed to launch Godot editor: ", "spawn ENOENT">>,
                        AccessSuggestions)), spawned)

handleGetGodotVersion(version) ==
    IF requireGodotPath.k # "proceed" THEN H(requireGodotPath, <<>>)
    ELSE IF version.k = "rejected"
    THEN H(Return(createErrorResponse(
               <<"Failed to get Godot version: ">> \o version.error,
               <<"Ensure Godot is installed correctly",
                 "Check if the GODOT_PATH environment variable is set correctly">>)),
           <<VersionProbe>>)
    ELSE H(Return(textResponse(trim(version.stdout))), <<VersionProbe>>)

(***************************************************************************)
(* InfoHandler                                                             *)
(***************************************************************************)
\* The directory itself when it holds a project.godot; the modelled file
\* system has no project in a subdirectory.
findGodotProjects(directory) ==
    IF existsSync(join(directory, <<"project.godot">>))
    THEN <<"[{path: ">> \o directory \o <<"}]">>
    ELSE <<"[]">>

handleListProjects(args) ==
    IF ~Given(args) THEN H(TypeErrorNoArguments, <<>>)
    ELSE IF ~Truthy(args.directory)
    THEN H(Return(createErrorResponse(
               <<"Directory is required">>,
               <<"Provide a valid directory path to search for Godot projects">>)),
           <<>>)
    ELSE IF validateProjectPath(args.directory).k # "proceed"
    THEN H(validateProjectPath(args.directory), <<>>)
    ELSE IF ~existsSync(args.directory)
    THEN H(Return(createErrorResponse(
               <<"Directory does not exist: ">> \o args.directory,
               <<"Provide a valid directory path that exists on the system">>)),
           <<>>)
    ELSE H(Return(textResponse(findGodotProjects(args.directory))), <<>>)

handleGetProjectInfo(args, version) ==
    IF ~Given(args) THEN H(TypeErrorNoArguments, <<>>)
    ELSE IF ~Truthy(args.projectPath)
    THEN H(Return(createErrorResponse(
               <<"Project path is required">>,
               <<"Provide a valid path to a Godot project directory">>)), <<>>)
    ELSE LET checks == First(<<validateProjectPath(args.projectPath),
                               validateProjectDirectory(args.projectPath),
                               requireGodotPath>>)
         IN  IF checks.k # "proceed" THEN H(checks, <<>>)
             ELSE IF version.k = "rejected"
             THEN H(Return(createErrorResponse(
                        <<"Failed to get project info: ">> \o version.error,
                        AccessSuggestions)), <<VersionProbe>>)
             ELSE H(Return(textResponse(
                        <<"{path: ">> \o args.projectPath
                        \o <<", godotVersion: ">> \o trim(version.stdout)
                        \o <<"}">>)), <<VersionProbe>>)

(***************************************************************************)
(* The default case of the request handler's switch.                       *)
(***************************************************************************)
handleUnknownTool(name) ==
    H(Throw(<<"MCP error -32601: ", "Unknown tool: ">> \o name), <<>>)

\* A tool call that empties the slot on its way.
toolCallResetsSlot(name, args, h) ==
    /\ last' = [Step(name, 0, args, h.spawns, 0, callTool(h.outcome))
                EXCEPT !.got = h.got]
    /\ activeProcess' = 0
    /\ UNCHANGED <<godotPath, child, overlap, exec, pure, processManager>>

\* A one-shot tool call, from the request to the response.
toolCall(name, args, h) ==
    /\ last' = [Step(name, 0, args, h.spawns, 0, callTool(h.outcome))
                EXCEPT !.got = h.got]
    /\ UNCHANGED <<godotPath, supervisor, exec, pure, processManager>>

(***************************************************************************)
(* The arguments the tools are called with: a valid call, and the calls    *)
(* that differ from it in one parameter.                                   *)
(***************************************************************************)
Vary(valid, others) ==
    {NoArguments, valid}
    \cup { [valid EXCEPT ![o[1]] = o[2]] : o \in others }

BadProjectPaths ==
    { <<"projectPath", undefined>>, <<"projectPath", <<"q">>>>,
      <<"projectPath", <<".", ".", "/", "p">>>> }

BadScenePaths ==
    { <<"scenePath", undefined>>, <<"scenePath", <<"m">>>>,
      <<"scenePath", <<".", ".", "/", "s">>>> }

ProjectArgs == Vary([projectPath |-> <<"p">>], BadProjectPaths)

ListProjectsArgs ==
    Vary([directory |-> <<"p">>],
         { <<"directory", undefined>>, <<"directory", <<"q">>>>,
           <<"directory", <<".", ".", "/", "p">>>> })

CreateSceneArgs ==
    Vary([projectPath |-> <<"p">>, scenePath |-> <<"s">>,
          rootNodeType |-> undefined],
         BadProjectPaths \cup BadScenePaths
         \cup { <<"rootNodeType", <<"Node3D">>>> })

AddNodeArgs ==
    Vary([projectPath |-> <<"p">>, scenePath |-> <<"s">>,
          nodeType |-> <<"Node2D">>, nodeName |-> <<"n">>,
          parentNodePath |-> undefined, properties |-> undefined],
         BadProjectPaths \cup BadScenePaths
         \cup { <<"nodeType", undefined>>, <<"nodeName", undefined>>,
                <<"parentNodePath", <<"root">>>> })

SaveSceneArgs ==
    Vary([projectPath |-> <<"p">>, scenePath |-> <<"s">>, newPath |-> undefined],
         BadProjectPaths \cup BadScenePaths
         \cup { <<"newPath", <<"t">>>>, <<"newPath", <<".", ".", "/", "t">>>> })

LoadSpriteArgs ==
    Vary([projectPath |-> <<"p">>, scenePath |-> <<"s">>,
          nodePath |-> <<"n">>, texturePath |-> <<"t">>],
         BadProjectPaths \cup BadScenePaths
         \cup { <<"nodePath", undefined>>, <<"texturePath", undefined>>,
                <<"texturePath", <<"m">>>>,
                <<"texturePath", <<".", ".", "/", "t">>>> })

ExportMeshLibraryArgs ==
    Vary([projectPath |-> <<"p">>, scenePath |-> <<"s">>,
          outputPath |-> <<"t">>, meshItemNames |-> undefined],
         BadProjectPaths \cup BadScenePaths
         \cup { <<"outputPath", undefined>>,
                <<"outputPath", <<".", ".", "/", "t">>>> })

GetUidArgs ==
    Vary([projectPath |-> <<"p">>, filePath |-> <<"s">>],
         BadProjectPaths
         \cup { <<"filePath", undefined>>, <<"filePath", <<"m">>>>,
                <<"filePath", <<".", ".", "/", "s">>>> })

UnknownToolNames == { <<"x">>, <<>> }

(***************************************************************************)
(* The server after construction.                                          *)
(***************************************************************************)
Constructed ==
    /\ godotPath \in {undefined, <<"godot">>}
    /\ activeProcess = 0
    /\ child = [p \in Procs |-> NoChild]
    /\ overlap = {}
    /\ last = Step("init", 0, NoArguments, <<>>, 0, NoResult)
    /\ exec = [c \in Calls |-> NoCall]
    /\ processManager =
           [activeProcess |-> 0, kills |-> [p \in Procs |-> 0],
            spawned |-> [p \in Procs |-> [st |-> "none", promise |-> "none"]]]

Init == Constructed /\ operand = <<>> /\ returned = <<>>

(***************************************************************************)
(* The supervised slot: the three project tools and the child's events.    *)
(***************************************************************************)

RunProject ==
    /\ \E args \in RunArgs : handleRunProject(args)
    /\ UNCHANGED <<exec, pure, processManager>>

GetDebugOutput == handleGetDebugOutput /\ UNCHANGED <<exec, pure, processManager>>

StopProject == handleStopProject /\ UNCHANGED <<exec, pure, processManager>>

ChildSpawn ==
    /\ \E p \in Procs : onSpawn(p)
    /\ UNCHANGED <<exec, pure, processManager>>

ChildError ==
    /\ \E p \in Procs : onError(p)
    /\ UNCHANGED <<exec, pure, processManager>>

ChildExit ==
    /\ \E p \in Procs : onExit(p)
    /\ UNCHANGED <<exec, pure, processManager>>

ChildStdout ==
    /\ \E p \in Procs, data \in StdoutChunks : onStdoutData(p, data)
    /\ UNCHANGED <<exec, pure, processManager>>

ChildStderr ==
    /\ \E p \in Procs, data \in StderrChunks : onStderrData(p, data)
    /\ UNCHANGED <<exec, pure, processManager>>

Next ==
    \/ RunProject
    \/ GetDebugOutput
    \/ StopProject
    \/ ChildSpawn
    \/ ChildError
    \/ ChildExit
    \/ ChildStdout
    \/ ChildStderr

Spec == Init /\ [][Next]_vars

(***************************************************************************)
(* The executor: executeOperation calls and their children's events.       *)
(***************************************************************************)
\* One call at a time: the next begins when the child of the last has closed.
ExecuteOperation ==
    /\ \A d \in Calls : exec[d].st # "open"
    /\ \E c \in Calls :
        /\ exec[c].st = "none"
        /\ \E fails \in BOOLEAN, outText \in Texts(MaxText) :
           \E errText \in Texts(MaxText - Len(outText)) :
              executeOperation(c, fails, outText, errText)

ExecStdout == \E c \in Calls : \E n \in 1..Len(exec[c].outPipe) : onExecStdout(c, n)
ExecStderr == \E c \in Calls : \E n \in 1..Len(exec[c].errPipe) : onExecStderr(c, n)
ExecError == \E c \in Calls : onExecError(c)
ExecClose == \E c \in Calls, code \in CloseCodes \cup {<<ENOENT>>} : onExecClose(c, code)

NextExec ==
    \/ ExecuteOperation
    \/ ExecStdout
    \/ ExecStderr
    \/ ExecError
    \/ ExecClose

SpecExec == Init /\ [][NextExec]_vars

(***************************************************************************)
(* The request handler: every tool, the three project tools with one child *)
(* at most.                                                                *)
(***************************************************************************)
LaunchEditor ==
    \E args \in ProjectArgs, spawns \in BOOLEAN :
        toolCall("launch_editor", args, handleLaunchEditor(args, spawns))

GetGodotVersion ==
    \E version \in VersionProbes :
        toolCall("get_godot_version", NoArguments, handleGetGodotVersion(version))

ListProjects ==
    \E args \in ListProjectsArgs :
        toolCall("list_projects", args, handleListProjects(args))

GetProjectInfo ==
    \E args \in ProjectArgs, version \in VersionProbes :
        toolCall("get_project_info", args, handleGetProjectInfo(args, version))

CreateScene ==
    \E args \in CreateSceneArgs, call \in SettledCalls :
        toolCall("create_scene", args, handleCreateScene(args, call))

AddNode ==
    \E args \in AddNodeArgs, call \in SettledCalls :
        toolCall("add_node", args, handleAddNode(args, call))

SaveScene ==
    \E args \in SaveSceneArgs, call \in SettledCalls :
        toolCall("save_scene", args, handleSaveScene(args, call))

LoadSprite ==
    \E args \in LoadSpriteArgs, call \in SettledCalls :
        toolCall("load_sprite", args, handleLoadSprite(args, call))

ExportMeshLibrary ==
    \E args \in ExportMeshLibraryArgs, call \in SettledCalls :
        toolCall("export_mesh_library", args, handleExportMeshLibrary(args, call))

GetUid ==
    \E args \in GetUidArgs, version \in VersionProbes, call \in SettledCalls :
        toolCall("get_uid", args, handleGetUid(args, version, call))

UpdateProjectUids ==
    \E args \in ProjectArgs, version \in VersionProbes, call \in SettledCalls :
        toolCall("update_project_uids", args,
                 handleUpdateProjectUids(args, version, call))

UnknownTool ==
    \E name \in UnknownToolNames :
        toolCall("unknown", NoArguments, handleUnknownTool(name))

RunFirstProject == Captured = {} /\ RunProject

NextTools ==
    \/ LaunchEditor
    \/ GetGodotVersion
    \/ RunFirstProject
    \/ GetDebugOutput
    \/ StopProject
    \/ ChildSpawn
    \/ ChildError
    \/ ChildExit
    \/ ListProjects
    \/ GetProjectInfo
    \/ CreateScene
    \/ AddNode
    \/ SaveScene
    \/ LoadSprite
    \/ ExportMeshLibrary
    \/ GetUid
    \/ UpdateProjectUids
    \/ UnknownTool

SpecTools == Init /\ [][NextTools]_vars

(***************************************************************************)
(* Properties of the supervised slot.                                      *)
(***************************************************************************)
\* A run_project request has completed: it was answered at once, or its
\* child's spawn or error event settled it.
RunCompleted ==
    /\ last.step \in {"run_project", "spawn", "error"}
    /\ last.result.k = "response"

\* activeProcess when the run_project request now completing was handled.
HeldAtRequest == IF last.step = "run_project" THEN last.pre ELSE last.prev

\* C1 as stated: every run_project request issued while the slot holds a
\* process P, once completed, leaves the newly spawned process in the slot,
\* and P signalled and no longer in the slot; the slot holds at most one
\* process.
C1_EveryRunRequestReplaces ==
    /\ activeProcess \in 0..MaxProcs
    /\ (RunCompleted /\ HeldAtRequest # 0) =>
          /\ last.id # 0
          /\ activeProcess = last.id
          /\ child[HeldAtRequest].killed
          /\ activeProcess # HeldAtRequest

\* C1 amended: every run_project request issued while the slot holds a
\* process P and completed by the spawn confirmation of its child reports
\* success, leaves that child in the slot, and P has been sent the terminate
\* signal and is no longer in the slot; the slot holds at most one process.
C1_ConfirmedRunReplaces ==
    /\ activeProcess \in 0..MaxProcs
    /\ (last.step = "spawn" /\ last.prev # 0) =>
          /\ last.result.k = "response" /\ ~last.result.resp.isError
          /\ activeProcess = last.id
          /\ child[activeProcess].st = "running"
          /\ child[last.prev].killed
          /\ activeProcess # last.prev

C1_Witness ==
    /\ last.step = "spawn" /\ last.prev # 0
    /\ child[last.prev].st = "running"

\* C2: when two run_project requests were in flight at the same time, then
\* once no request is pending, no child of theirs is running, never
\* signalled and not the one in the slot.
C2_RacingRunsOneWinner ==
    (InFlight = {}) =>
        \A p \in overlap :
            ~(child[p].st = "running" /\ ~child[p].killed /\ activeProcess # p)

\* C3: a run_project request received while the slot holds a process P
\* signals P before it spawns the new child, and the slot is empty before it
\* holds the new child: it never changes from P directly to the new child.
C3_RestartPassesThroughIdle ==
    /\ (last.step = "run_project" /\ last.id # 0 /\ last.pre # 0) =>
          child[last.pre].killed
    /\ (last.step = "spawn" /\ last.prev # 0) =>
          ~(last.pre = last.prev /\ activeProcess = last.id)

\* C4: stop_project with a process P in the slot signals P, returns exactly
\* the output and error entries captured for P so far, in order, and empties
\* the slot; with the slot empty, get_debug_output and stop_project report
\* that there is no active process.
C4_StopReturnsCapturedLines ==
    /\ (last.step = "stop_project" /\ last.pre # 0) =>
          /\ child[last.pre].killed
          /\ last.result = Response("return", linesResponse(
                               <<"Godot project stopped">>,
                               child[last.pre].output, child[last.pre].errors))
          /\ activeProcess = 0
    /\ (last.step \in {"stop_project", "get_debug_output"} /\ last.pre = 0) =>
          /\ last.result.k = "response"
          /\ last.result.resp.output = <<>>
          /\ last.result.resp.errors = <<>>
          /\ last.result.resp.message \in
                 { <<"No active Godot process to stop.">>,
                   <<"No active Godot process.">> }

C4_Witness ==
    /\ last.step = "stop_project" /\ last.pre # 0
    /\ last.result.resp.output # <<>>
    /\ last.result.resp.errors # <<>>
    /\ last.result.resp.output # last.result.resp.errors

\* C5: stop_project with the slot empty returns the error-flagged "nothing to
\* stop" response; it is no fault, it signals no process and it leaves the
\* slot and every captured buffer as they were.
C5_StopWhileIdle ==
    [][(activeProcess = 0 /\ last'.step = "stop_project") =>
          /\ last'.result.k = "response"
          /\ last'.result.resp.isError
          /\ last'.result.resp.message = <<"No active Godot process to stop.">>
          /\ last'.result.resp.suggestions # <<>>
          /\ child' = child
          /\ activeProcess' = 0]_vars

C5_Witness ==
    /\ last.step = "stop_project" /\ last.pre = 0
    /\ \E p \in Procs : child[p].st = "running" /\ child[p].output # <<>>

\* The arguments of a run_project call lack a required parameter or hold a
\* path that fails the path-safety check.
RunArgsInvalid(args) ==
    \/ ~Given(args)
    \/ ~Truthy(Get(args, "projectPath"))
    \/ ~validatePath(Get(args, "projectPath"))
    \/ (Truthy(Get(args, "scene")) /\ ~validatePath(Get(args, "scene")))

\* C10: a tool call with a missing required parameter or with a path
\* parameter that fails the path-safety check is rejected before any child is
\* spawned: it spawns nothing and signals no supervised process.
C10_InvalidCallSpawnsNothing ==
    [][(last'.step = "run_project" /\ RunArgsInvalid(last'.args)) =>
          /\ last'.id = 0
          /\ last'.spawns = <<>>
          /\ last'.result.k = "response" /\ last'.result.resp.isError
          /\ child' = child]_vars

(***************************************************************************)
(* Properties of executeOperation.                                         *)
(***************************************************************************)
\* C7: an executeOperation call settles at most once: it resolves with an
\* ExecutionResult only when the close event of its child has been observed,
\* or it rejects with no result; a settled call never changes its settlement
\* or its result, in whatever order the data, error and close events come.
C7_SettlesOnce ==
    /\ [](\A c \in Calls :
            /\ exec[c].promise \in {"pending", "resolved", "rejected"}
            /\ exec[c].promise = "resolved" =>
                   /\ exec[c].st = "closed"
                   /\ exec[c].result # none
                   /\ exec[c].error = <<>>
            /\ exec[c].promise # "resolved" => exec[c].result = none)
    /\ [][\A c \in Calls :
            exec[c].promise # "pending" =>
                /\ exec'[c].promise = exec[c].promise
                /\ exec'[c].result = exec[c].result
                /\ exec'[c].error = exec[c].error]_vars

\* The error event rejected the call and the close event came after it.
C7_Witness ==
    \E c \in Calls :
        /\ exec[c].st = "closed" /\ exec[c].code = <<ENOENT>>
        /\ exec[c].promise = "rejected" /\ exec[c].error = <<"spawn ENOENT">>

\* C8: when executeOperation resolves, the stdout of the result is the text
\* the chunks of the child's stdout carried, in order, its stderr the text the
\* chunks of the child's stderr carried, and its exit code the termination
\* code of the child when it has one; a child that writes T to stdout, nothing
\* to stderr and exits 0 yields (T, empty, 0).
C8_ResultIsWhatChildWrote ==
    \A c \in Calls :
        exec[c].promise = "resolved" =>
            /\ exec[c].result[1].stdout = exec[c].outText
            /\ exec[c].result[1].stderr = exec[c].errText
            /\ exec[c].code # none => exec[c].result[1].exitCode = exec[c].code[1]

(***************************************************************************)
(* Properties of the tool handlers and of the request handler.             *)
(***************************************************************************)
DiscreteTools ==
    {"create_scene", "add_node", "save_scene", "load_sprite",
     "export_mesh_library", "get_uid", "update_project_uids"}

\* C6: a handler of one of the seven discrete operations that was given an
\* ExecutionResult returns a success response if and only if the exit code is
\* 0 and stderr is empty; otherwise it returns an error-flagged response, and
\* when stderr is not empty the message of the response carries it.
C6_SuccessIffCleanExit ==
    (last.step \in DiscreteTools /\ last.got # <<>>) =>
        /\ last.result.k = "response" /\ last.result.via = "return"
        /\ (~last.result.resp.isError) <=>
               (last.got[1].exitCode = 0 /\ last.got[1].stderr = <<>>)
        /\ last.got[1].stderr # <<>> =>
               includes(last.result.resp.message, last.got[1].stderr)

\* The child wrote to stderr and exited 0: the call failed.
C6_Witness ==
    /\ last.step = "get_uid" /\ last.got # <<>>
    /\ last.got[1].exitCode = 0 /\ last.got[1].stderr # <<>>
    /\ last.result.resp.isError

\* C9: every tool call is answered with a ToolResponse and never with a fault;
\* when the handler threw or its promise rejected (an unknown tool name,
\* missing arguments, a failed validation, a failed spawn), the response is
\* error-flagged, and every error-flagged response carries a suggestion.
C9_NoFaultEscapes ==
    /\ last.result.k \in {"response", "none"}
    /\ last.result.k = "none" =>
           last.step \in {"init", "run_project", "exit"}
    /\ last.result.k = "response" =>
           /\ last.result.via \in {"throw", "reject"} =>
                  last.result.resp.isError
           /\ last.result.resp.isError =>
                  last.result.resp.suggestions # <<>>

\* The promise of launch_editor rejected with a ToolResponse.
C9_Witness ==
    /\ last.step = "launch_editor"
    /\ last.result.k = "response" /\ last.result.via = "reject"
    /\ last.result.resp.suggestions # <<>>

\* The path-shaped parameters of the tools.
PathParameters ==
    {"projectPath", "scenePath", "filePath", "outputPath", "texturePath",
     "newPath", "directory", "scene"}

\* A path-shaped parameter of the call is given and fails the path-safety
\* check.
UnsafePathGiven(args) ==
    /\ Given(args)
    /\ \E f \in PathParameters \cap DOMAIN args :
           Truthy(args[f]) /\ ~validatePath(args[f])

ToolSteps ==
    DiscreteTools
    \cup {"launch_editor", "get_godot_version", "run_project",
          "get_debug_output", "stop_project", "list_projects",
          "get_project_info"}

\* C11: a tool call with a path-shaped parameter that fails the path-safety
\* check ends in an error-flagged response: the failure is not ignored (the
\* call spawns nothing and is not left waiting for a child) and no fault
\* escapes.
C11_UnsafePathIsAnError ==
    (last.step \in ToolSteps /\ UnsafePathGiven(last.args)) =>
        /\ last.result.k = "response"
        /\ last.result.resp.isError
        /\ last.spawns = <<>>

(***************************************************************************)
(* PathValidator.validatePath, applied to every string of at most MaxPath  *)
(* characters of a dot, a slash and a letter.                              *)
(***************************************************************************)
\* The strings of at most n characters of the alphabet A.
RECURSIVE Words(_, _)
Words(A, n) ==
    IF n = 0 THEN {<<>>}
    ELSE Words(A, n - 1)
         \cup {w \o <<c>> : w \in {v \in Words(A, n - 1) : Len(v) = n - 1}, c \in A}

PathChars == {".", "/", "a"}

InitValidatePath ==
    /\ Constructed /\ godotPath = undefined
    /\ operand \in Words(PathChars, MaxPath)
    /\ returned = <<>>

ValidatePath ==
    /\ returned = <<>>
    /\ returned' = <<validatePath(operand)>>
    /\ UNCHANGED <<godotPath, supervisor, last, exec, operand, processManager>>

NextValidatePath == ValidatePath

SpecValidatePath == InitValidatePath /\ [][NextValidatePath]_vars


\* C12: validatePath(p) is false for the empty string and for every string
\* with two dots in a row anywhere, and true for every other string.
C12_ValidatePath ==
    returned # <<>> =>
        returned[1] = (/\ operand # <<>>
                     /\ ~\E i \in 1..(Len(operand) - 1) :
                            operand[i] = "." /\ operand[i + 1] = ".")

\* A path with '..' after its first character was refused.
C12_Witness ==
    /\ returned = <<FALSE>>
    /\ Len(operand) >= 3 /\ operand[1] = "a" /\ operand[2] = "." /\ operand[3] = "."

(***************************************************************************)
(* ParameterMapperImpl.convertCamelToSnakeCase (normalize).                *)
(* A value is a scalar, a sequence of values or a parameter bag; a bag is  *)
(* its entries in insertion order, no key twice.                           *)
(***************************************************************************)
Scalar(v) == [t |-> "scalar", scalar |-> v]
Sequence(vs) == [t |-> "seq", elements |-> vs]
Bag(entries) == [t |-> "bag", entries |-> entries]
Entry(k, v) == [k |-> k, v |-> v]

IsUpper(c) == c \in {"B"}
IsLower(c) == c \in {"b"}
toLowerCase(c) == IF c = "B" THEN "b" ELSE c

\* A rewriting that puts an underscore before every upper-case letter and
\* keeps the case.
RECURSIVE rewriteKeyKeepsCase(_)
rewriteKeyKeepsCase(key) ==
    IF key = <<>> THEN <<>>
    ELSE rewriteKeyKeepsCase(SubSeq(key, 1, Len(key) - 1))
         \o (IF IsUpper(key[Len(key)]) THEN <<"_">> ELSE <<>>)
         \o <<key[Len(key)]>>

\* An underscore before every upper-case letter that follows a lower-case
\* letter or a digit, then the whole key in lower case.
RECURSIVE rewriteKey(_)
rewriteKey(key) ==
    IF key = <<>> THEN <<>>
    ELSE rewriteKey(SubSeq(key, 1, Len(key) - 1))
         \o (IF /\ Len(key) >= 2
                /\ IsUpper(key[Len(key)])
                /\ (IsLower(key[Len(key) - 1]) \/ IsDigit(key[Len(key) - 1]))
             THEN <<"_">> ELSE <<>>)
         \o <<toLowerCase(key[Len(key)])>>

\* result[key] = value: a key the bag has keeps its place and takes the value.
put(entries, k, v) ==
    IF \E i \in 1..Len(entries) : entries[i].k = k
    THEN [i \in 1..Len(entries) |->
             IF entries[i].k = k THEN Entry(k, v) ELSE entries[i]]
    ELSE Append(entries, Entry(k, v))

RECURSIVE normalize(_)
RECURSIVE normalizeEntries(_)

\* A normalize that passes sequences through as they are.
normalizeSkipsSequences(x) ==
    CASE x.t = "scalar" -> x
      [] x.t = "seq" -> x
      [] x.t = "bag" -> Bag(normalizeEntries(x.entries))

normalize(x) ==
    CASE x.t = "scalar" -> x
      [] x.t = "seq" -> Sequence([i \in 1..Len(x.elements) |-> normalize(x.elements[i])])
      [] x.t = "bag" -> Bag(normalizeEntries(x.entries))

normalizeEntries(entries) ==
    IF entries = <<>> THEN <<>>
    ELSE put(normalizeEntries(SubSeq(entries, 1, Len(entries) - 1)),
             rewriteKey(entries[Len(entries)].k),
             normalize(entries[Len(entries)].v))

(***************************************************************************)
(* The parameter bags normalize is applied to: the bags of one entry with  *)
(* every key of at most MaxKey characters, and the bags of at most         *)
(* MaxEntries entries that hold scalars, bags and sequences of these.      *)
(***************************************************************************)
KeyChars == {"b", "B", "_", "1"}

NestKeys == { <<"b", "B">>, <<"b", "_", "b">>, <<"B">> }

Leaves == { Scalar(<<"x", "Y">>), Scalar(<<"null">>) }

\* The entry lists of at most n entries with keys of K, no key twice, and
\* values of V.
RECURSIVE EntryLists(_, _, _)
EntryLists(K, V, n) ==
    IF n = 0 THEN {<<>>}
    ELSE EntryLists(K, V, n - 1)
         \cup { Append(u[1], Entry(u[2], u[3])) :
                    u \in { w \in EntryLists(K, V, n - 1) \X K \X V :
                               /\ Len(w[1]) = n - 1
                               /\ \A i \in 1..Len(w[1]) : w[1][i].k # w[2] } }

Bags(K, V, n) == { Bag(es) : es \in EntryLists(K, V, n) }

\* The sequences of at most n values of V.
RECURSIVE Sequences(_, _)
Sequences(V, n) ==
    IF n = 0 THEN {Sequence(<<>>)}
    ELSE Sequences(V, n - 1)
         \cup { Sequence(Append(q.elements, v)) :
                    q \in {r \in Sequences(V, n - 1) : Len(r.elements) = n - 1},
                    v \in V }

Inner ==
    Leaves
    \cup Bags(NestKeys, {Scalar(<<"x", "Y">>)}, 1)
    \cup Sequences({Scalar(<<"null">>),
                    Bag(<<Entry(<<"b", "B">>, Scalar(<<"x", "Y">>))>>)}, MaxSeq)

ParameterBags ==
    Bags(Words(KeyChars, MaxKey), {Scalar(<<"null">>)}, 1)
    \cup Bags(NestKeys, Inner, MaxEntries)

InitNormalize ==
    /\ Constructed /\ godotPath = undefined
    /\ operand \in ParameterBags
    /\ returned = <<>>

\* normalize(B), and then normalize of what it returned.
Normalize ==
    /\ Len(returned) = 0
    /\ returned' = <<normalize(operand)>>
    /\ UNCHANGED <<godotPath, supervisor, last, exec, operand, processManager>>

NormalizeAgain ==
    /\ Len(returned) = 1
    /\ returned' = <<returned[1], normalize(returned[1])>>
    /\ UNCHANGED <<godotPath, supervisor, last, exec, operand, processManager>>

NextNormalize == Normalize \/ NormalizeAgain

SpecNormalize == InitNormalize /\ [][NextNormalize]_vars

\* No key of x, at any depth, holds an upper-case letter.
RECURSIVE UnderscoreForm(_)
UnderscoreForm(x) ==
    CASE x.t = "scalar" -> TRUE
      [] x.t = "seq" -> \A i \in 1..Len(x.elements) : UnderscoreForm(x.elements[i])
      [] x.t = "bag" ->
            \A i \in 1..Len(x.entries) :
                /\ \A j \in 1..Len(x.entries[i].k) : ~IsUpper(x.entries[i].k[j])
                /\ UnderscoreForm(x.entries[i].v)

\* C13: normalize is idempotent: normalizing what normalize returned gives
\* the same bag again, and a bag whose keys are all in underscore form
\* already is returned as it is.
C13_NormalizeIdempotent ==
    /\ Len(returned) = 2 => returned[2] = returned[1]
    /\ (Len(returned) >= 1 /\ UnderscoreForm(operand)) => returned[1] = operand

C13_Witness ==
    /\ Len(returned) = 2
    /\ returned[1] # operand
    /\ Len(operand.entries) = 1
    /\ operand.entries[1].k = <<"b", "1", "B">>
    /\ returned[2].entries[1].k = <<"b", "1", "_", "b">>

\* y is x with nothing but keys changed: the same kind of value; a scalar the
\* same scalar; a sequence of the same length, element by element; a bag
\* with an entry for each entry of x, under the rewritten key.
RECURSIVE OnlyKeysChange(_, _)
OnlyKeysChange(x, y) ==
    /\ y.t = x.t
    /\ CASE x.t = "scalar" -> y.scalar = x.scalar
         [] x.t = "seq" ->
               /\ Len(y.elements) = Len(x.elements)
               /\ \A i \in 1..Len(x.elements) :
                      OnlyKeysChange(x.elements[i], y.elements[i])
         [] x.t = "bag" ->
               /\ Len(y.entries) = Len(x.entries)
               /\ \A i \in 1..Len(x.entries) :
                      /\ y.entries[i].k = rewriteKey(x.entries[i].k)
                      /\ OnlyKeysChange(x.entries[i].v, y.entries[i].v)

\* No two keys of one bag of x, at any depth, are rewritten to the same key.
RECURSIVE KeysStayDistinct(_)
KeysStayDistinct(x) ==
    CASE x.t = "scalar" -> TRUE
      [] x.t = "seq" -> \A i \in 1..Len(x.elements) : KeysStayDistinct(x.elements[i])
      [] x.t = "bag" ->
            /\ \A i, j \in 1..Len(x.entries) :
                   rewriteKey(x.entries[i].k) = rewriteKey(x.entries[j].k) => i = j
            /\ \A i \in 1..Len(x.entries) : KeysStayDistinct(x.entries[i].v)

\* C14 as stated: normalize changes only keys, for every nested bag: every
\* sequence keeps length and order, every scalar its value, and every value
\* of the bag is in the output under its rewritten key.
C14_OnlyKeysChange ==
    Len(returned) >= 1 => OnlyKeysChange(operand, returned[1])

\* C14: normalize changes only keys, for every nested bag in which no two
\* keys of one bag are rewritten to the same key.
C14_OnlyKeysChangeDistinct ==
    (Len(returned) >= 1 /\ KeysStayDistinct(operand)) =>
        OnlyKeysChange(operand, returned[1])

C14_Witness ==
    /\ Len(returned) >= 1
    /\ KeysStayDistinct(operand)
    /\ Len(operand.entries) = 2
    /\ operand.entries[1].v.t = "bag"
    /\ operand.entries[2].v.t = "seq"
    /\ Len(operand.entries[2].v.elements) = 2
    /\ operand.entries[2].v.elements[2].t = "bag"
    /\ returned[1].entries[2].v.elements[2].entries[1].k = <<"b", "_", "b">>

(***************************************************************************)
(* The unresolved Godot path.                                              *)
(***************************************************************************)
NoGodotPathMessage == <<"Could not find a valid Godot executable path">>

NeedGodot == DiscreteTools \cup {"run_project", "launch_editor", "get_godot_version"}

\* The calls whose arguments pass every check that comes before the Godot
\* path is looked at.
ReachesGodotPath(step, args) ==
    \/ step = "get_godot_version"
    \/ /\ step \in {"run_project", "launch_editor"}
       /\ Given(args) /\ args.projectPath = <<"p">>
    \/ /\ step = "create_scene"
       /\ Given(args) /\ args.projectPath = <<"p">> /\ args.scenePath = <<"s">>

\* C15: while the Godot path is unresolved no child is ever spawned and no
\* process signalled; every call of a discrete operation, of run_project, of
\* launch_editor and of get_godot_version is answered with an error-flagged
\* response, and the call whose arguments are valid with the configuration
\* error.
C15_NoPathNoChild ==
    ~Truthy(godotPath) =>
        /\ activeProcess = 0
        /\ \A p \in Procs : child[p] = NoChild
        /\ last.step \in NeedGodot =>
              /\ last.spawns = <<>>
              /\ last.result.k = "response"
              /\ last.result.resp.isError
              /\ ReachesGodotPath(last.step, last.args) =>
                    includes(last.result.resp.message, NoGodotPathMessage)

C15_Witness ==
    /\ ~Truthy(godotPath)
    /\ last.step = "run_project"
    /\ Given(last.args) /\ last.args.projectPath = <<"p">>
    /\ last.result.resp.isError
    /\ last.result.resp.message = NoGodotPathMessage
    /\ last.spawns = <<>>

(***************************************************************************)
(* ProcessManagerImpl                                                      *)
(***************************************************************************)
\* A setActiveProcess that kills the process it replaces.
setActiveProcessKillsOld(pm, p) ==
    IF pm.activeProcess # 0 /\ pm.kills[pm.activeProcess] < MaxKills
    THEN [pm EXCEPT !.kills[pm.activeProcess] = @ + 1, !.activeProcess = p]
    ELSE [pm EXCEPT !.activeProcess = p]

\* setActiveProcess(process)
setActiveProcess(pm, p) == [pm EXCEPT !.activeProcess = p]

\* A cleanup that leaves the process in the slot.
cleanupKeepsSlot(pm) ==
    IF pm.activeProcess # 0
    THEN [pm EXCEPT !.kills[pm.activeProcess] = @ + 1]
    ELSE pm

\* cleanup(): this.activeProcess.process.kill(); this.activeProcess = null
cleanup(pm) ==
    IF pm.activeProcess # 0
    THEN [pm EXCEPT !.kills[pm.activeProcess] = @ + 1, !.activeProcess = 0]
    ELSE pm

\* The step records the process set or signalled (id) and the slot before
\* the call (prev).
SetActiveProcess ==
    \E p \in Procs :
        /\ processManager' = setActiveProcess(processManager, p)
        /\ last' = Step("setActiveProcess", p, NoArguments, <<>>,
                        processManager.activeProcess, NoResult)
        /\ UNCHANGED <<godotPath, supervisor, exec, pure>>

Cleanup ==
    /\ \A p \in Procs : processManager.kills[p] < MaxKills
    /\ processManager' = cleanup(processManager)
    /\ last' = Step("cleanup", processManager.activeProcess, NoArguments, <<>>,
                    processManager.activeProcess, NoResult)
    /\ UNCHANGED <<godotPath, supervisor, exec, pure>>

NextProcessManager == SetActiveProcess \/ Cleanup

SpecProcessManager == Init /\ [][NextProcessManager]_vars

\* C16: cleanup is idempotent: with a process in the slot it sends that
\* process one kill signal, and no other process any, and clears the slot;
\* with the slot empty it changes nothing; it does not raise; and a cleanup
\* that follows a cleanup changes nothing and signals no process.
C16_CleanupIdempotent ==
    [][last'.step = "cleanup" =>
          /\ processManager'.activeProcess = 0
          /\ last'.result.k # "fault"
          /\ \A p \in Procs :
                processManager'.kills[p] =
                    processManager.kills[p]
                    + (IF p = processManager.activeProcess THEN 1 ELSE 0)
          /\ processManager.activeProcess = 0 => processManager' = processManager
          /\ last.step = "cleanup" => processManager' = processManager]_vars

\* A cleanup of the empty slot after a cleanup that signalled process 1.
C16_Witness ==
    /\ last.step = "cleanup" /\ last.prev = 0
    /\ processManager.activeProcess = 0
    /\ processManager.kills[1] = 1
    /\ processManager.kills[2] = 0

(***************************************************************************)
(* The argument vector of a discrete operation.                            *)
(***************************************************************************)
\* JSON.stringify of a value: the text, character by character.
RECURSIVE stringify(_)
RECURSIVE stringifyEntries(_)
RECURSIVE stringifyElements(_)

stringify(x) ==
    CASE x.t = "scalar" ->
            IF x.scalar = <<"null">> THEN <<"null">>
            ELSE <<"\"">> \o x.scalar \o <<"\"">>
      [] x.t = "seq" -> <<"[">> \o stringifyElements(x.elements) \o <<"]">>
      [] x.t = "bag" -> <<"{">> \o stringifyEntries(x.entries) \o <<"}">>

stringifyEntries(entries) ==
    IF entries = <<>> THEN <<>>
    ELSE stringifyEntries(SubSeq(entries, 1, Len(entries) - 1))
         \o (IF Len(entries) > 1 THEN <<",">> ELSE <<>>)
         \o <<"\"">> \o entries[Len(entries)].k \o <<"\"", ":">>
         \o stringify(entries[Len(entries)].v)

stringifyElements(elements) ==
    IF elements = <<>> THEN <<>>
    ELSE stringifyElements(SubSeq(elements, 1, Len(elements) - 1))
         \o (IF Len(elements) > 1 THEN <<",">> ELSE <<>>)
         \o stringify(elements[Len(elements)])

\* join(__dirname, 'scripts', 'godot_operations.gd')
operationsScriptPath == <<"scripts", "/", "godot_operations.gd">>

\* An argument vector with one argument for each entry of the bag.
operationArgsSpread(operation, params, projectPath, godotDebugMode) ==
    << <<"--headless">>, <<"--path">>, projectPath, <<"--script">>,
       operationsScriptPath, operation >>
    \o [i \in 1..Len(normalize(params).entries) |->
           stringify(Bag(<<normalize(params).entries[i]>>))]
    \o (IF godotDebugMode THEN << <<"--debug-godot">> >> ELSE <<>>)

\* const args = [...] of executeOperation
operationArgs(operation, params, projectPath, godotDebugMode) ==
    << <<"--headless">>, <<"--path">>, projectPath, <<"--script">>,
       operationsScriptPath, operation, stringify(normalize(params)) >>
    \o (IF godotDebugMode THEN << <<"--debug-godot">> >> ELSE <<>>)

Operations ==
    { <<"create_scene">>, <<"add_node">>, <<"save_scene">>, <<"load_sprite">>,
      <<"export_mesh_library">>, <<"get_uid">>, <<"resave_resources">> }

OperationCalls ==
    [operation : Operations,
     params : Bags(NestKeys, Leaves, MaxEntries)
              \cup Bags({<<"b", "B">>}, Inner, 1),
     projectPath : {<<"p">>, <<"q">>},
     godotDebugMode : BOOLEAN]

InitOperationArgs ==
    /\ Constructed /\ godotPath = <<"godot">>
    /\ operand \in OperationCalls
    /\ returned = <<>>

OperationArgs ==
    /\ returned = <<>>
    /\ returned' = <<operationArgs(operand.operation, operand.params,
                                   operand.projectPath, operand.godotDebugMode)>>
    /\ UNCHANGED <<godotPath, supervisor, last, exec, operand, processManager>>

NextOperationArgs == OperationArgs

SpecOperationArgs == InitOperationArgs /\ [][NextOperationArgs]_vars

\* C17: the argument vector of a discrete operation is --headless, --path and
\* the project path, --script and the operations script path, the operation
\* name, the serialized parameter bag as one argument whatever the number of
\* its entries, and then --debug-godot if and only if godotDebugMode is set.
C17_ArgumentVector ==
    returned # <<>> =>
        /\ SubSeq(returned[1], 1, 6) =
               << <<"--headless">>, <<"--path">>, operand.projectPath,
                  <<"--script">>, operationsScriptPath, operand.operation >>
        /\ returned[1][7] = stringify(normalize(operand.params))
        /\ returned[1][7][1] = "{"
        /\ Len(returned[1]) = IF operand.godotDebugMode THEN 8 ELSE 7
        /\ operand.godotDebugMode => returned[1][8] = <<"--debug-godot">>

\* A bag of two entries, with the debug flag.
C17_Witness ==
    /\ returned # <<>>
    /\ Len(operand.params.entries) = 2
    /\ operand.godotDebugMode
    /\ returned[1][7] =
           <<"{", "\"", "b", "_", "b", "\"", ":", "\"", "x", "Y", "\"", ",",
             "\"", "b", "\"", ":", "null", "}">>
    /\ Len(returned[1]) = 8

(***************************************************************************)
(* Spawn failures.                                                         *)
(***************************************************************************)
\* The step ended a call whose child the OS failed to create: the error
\* event of a run_project child, a launch_editor call that rejected, a
\* discrete operation whose executeOperation call gave no result.
SpawnFailed(s) ==
    \/ s.step = "error"
    \/ s.step = "launch_editor" /\ s.result.via = "reject"
    \/ /\ s.step \in DiscreteTools
       /\ s.got = <<>>
       /\ \E i \in 1..Len(s.spawns) : s.spawns[i].by = "executeOperation"

\* C18: when the OS fails to create the child, of a discrete operation, of
\* run_project or of launch_editor, the response the client gets is
\* error-flagged and its message holds the message of the OS error, and the
\* call spawned no second child.
C18_SpawnErrorVerbatim ==
    SpawnFailed(last) =>
        /\ last.result.k = "response"
        /\ last.result.resp.isError
        /\ includes(last.result.resp.message, <<"spawn ENOENT">>)
        /\ Cardinality({i \in 1..Len(last.spawns) :
                            last.spawns[i].by \in {"spawn", "executeOperation"}}) <= 1

\* The same for the discrete operations alone.
C18_DiscreteSpawnErrorVerbatim ==
    (last.step \in DiscreteTools /\ SpawnFailed(last)) =>
        /\ last.result.resp.isError
        /\ includes(last.result.resp.message, <<"spawn ENOENT">>)

(***************************************************************************)
(* The termination status of the child of a discrete operation.            *)
(***************************************************************************)
\* The executeOperation calls whose child was ended by a signal: the close
\* event came without a code.
Killed == { c \in Calls : exec[c].promise = "resolved" /\ exec[c].code = none }

\* C19: when the child of a discrete operation is killed, its close event
\* coming without an exit code, the result of the call differs from the
\* result of a child that wrote the same and exited with code 0, and the
\* handler given the result answers with an error-flagged response.
C19_KilledChildIsAbnormal ==
    \A c \in Killed :
        /\ exec[c].result[1] #
               ExecutionResult(exec[c].stdout, exec[c].stderr, <<0>>)
        /\ operationResponse(<<"Failed to create scene: ">>,
                             <<"Check if the root node type is valid">>,
                             <<"Scene created successfully">>,
                             exec[c].result[1]).resp.isError

\* C20: the exit code of an ExecutionResult is an integer: 0 when the close
\* event came without a code, and the code of the close event otherwise.
C20_ExitCodeIsInteger ==
    \A c \in Calls :
        exec[c].promise = "resolved" =>
            /\ exec[c].result[1].exitCode \in Int
            /\ exec[c].code = none => exec[c].result[1].exitCode = 0
            /\ exec[c].code # none =>
                   exec[c].result[1].exitCode = exec[c].code[1]

C20_Witness ==
    \E c \in Killed :
        /\ exec[c].result[1].exitCode = 0
        /\ exec[c].stdout # <<>>

(***************************************************************************)
(* The slot after the exit of its process.                                 *)
(***************************************************************************)
\* C21: the exit event of the process in the slot empties the slot; with the
\* slot empty get_debug_output and stop_project answer that there is no
\* active process; and the empty slot is filled only by the spawn event of a
\* run_project child, the event that makes its request report success.
C21_ExitEmptiesSlot ==
    [][/\ (last'.step = "exit" /\ last'.id = activeProcess) => activeProcess' = 0
       /\ (activeProcess = 0
           /\ last'.step \in {"get_debug_output", "stop_project"}) =>
              /\ last'.result.k = "response"
              /\ last'.result.resp.isError
              /\ last'.result.resp.message \in
                     { <<"No active Godot process.">>,
                       <<"No active Godot process to stop.">> }
              /\ activeProcess' = 0
       /\ (activeProcess = 0 /\ activeProcess' # 0) =>
              /\ last'.step = "spawn"
              /\ last'.id = activeProcess'
              /\ ~last'.result.resp.isError]_vars

\* Process 1 ran alone, was never signalled and has exited; get_debug_output
\* finds no process.
C21_Witness ==
    /\ child[1].st = "exited" /\ ~child[1].killed
    /\ child[2].st = "none"
    /\ last.step = "get_debug_output"
    /\ last.result.resp.isError
    /\ activeProcess = 0

(***************************************************************************)
(* ProcessManagerImpl.spawnProcess.  A child of it is "none" (not spawned), *)
(* "spawning" (spawn() called, no event yet), "running" (its spawn event   *)
(* was delivered) or "failed" (its error event was delivered instead); the *)
(* promise of the call is "none", "pending", "resolved" with the process   *)
(* or "rejected" with the error.                                           *)
(***************************************************************************)
\* A spawnProcess that resolves as soon as spawn() has returned.
spawnProcessResolvesAtOnce(pm, p) ==
    [pm EXCEPT !.spawned[p] = [st |-> "spawning", promise |-> "resolved"]]

\* const process = spawn(command, args, options), inside new Promise
spawnProcess(pm, p) ==
    [pm EXCEPT !.spawned[p] = [st |-> "spawning", promise |-> "pending"]]

\* A promise settles once.
settle(promise, to) == IF promise = "pending" THEN to ELSE promise

\* process.once('spawn', ...): resolve(process)
onProcessSpawn(pm, p) ==
    [pm EXCEPT !.spawned[p] =
        [st |-> "running", promise |-> settle(pm.spawned[p].promise, "resolved")]]

\* process.once('error', ...): reject(err)
onProcessError(pm, p) ==
    [pm EXCEPT !.spawned[p] =
        [st |-> "failed", promise |-> settle(pm.spawned[p].promise, "rejected")]]

SpawnProcess ==
    \E p \in Procs :
        /\ processManager.spawned[p].st = "none"
        /\ \A q \in Procs : q < p => processManager.spawned[q].st # "none"
        /\ processManager' = spawnProcess(processManager, p)
        /\ UNCHANGED <<godotPath, supervisor, last, exec, pure>>

ProcessSpawn ==
    \E p \in Procs :
        /\ processManager.spawned[p].st = "spawning"
        /\ processManager' = onProcessSpawn(processManager, p)
        /\ UNCHANGED <<godotPath, supervisor, last, exec, pure>>

ProcessError ==
    \E p \in Procs :
        /\ processManager.spawned[p].st = "spawning"
        /\ processManager' = onProcessError(processManager, p)
        /\ UNCHANGED <<godotPath, supervisor, last, exec, pure>>

\* run_project with no run request pending and the slot empty.
RunWhenIdle == activeProcess = 0 /\ InFlight = {} /\ RunProject

NextSpawn ==
    \/ RunWhenIdle
    \/ ChildSpawn
    \/ ChildError
    \/ ChildExit
    \/ SpawnProcess
    \/ ProcessSpawn
    \/ ProcessError

SpecSpawn == Init /\ [][NextSpawn]_vars

\* C22: the slot holds only a process whose spawn event was delivered, never
\* one that is still being spawned or whose spawn failed; a run request
\* reports success only in the spawn event of its child; and the promise of
\* spawnProcess is pending until the child's spawn event or error event,
\* resolved only after the spawn event, rejected after the error event.
C22_SlotFilledOnSpawnEvent ==
    /\ activeProcess # 0 => child[activeProcess].st = "running"
    /\ \A p \in Procs :
          child[p].st \in {"none", "spawning", "failed"} => activeProcess # p
    /\ last.step \in {"run_project", "error"} =>
          ~(last.result.k = "response" /\ ~last.result.resp.isError)
    /\ last.step = "spawn" =>
          /\ ~last.result.resp.isError
          /\ child[last.id].st = "running"
    /\ \A p \in Procs :
          /\ processManager.spawned[p].st = "spawning" =>
                processManager.spawned[p].promise = "pending"
          /\ processManager.spawned[p].promise = "resolved" =>
                processManager.spawned[p].st = "running"
          /\ processManager.spawned[p].st = "failed" =>
                processManager.spawned[p].promise = "rejected"

\* The spawn of child 1 failed and child 2 is in the slot; of the two
\* spawnProcess calls one rejected and one resolved.
C22_Witness ==
    /\ child[1].st = "failed"
    /\ activeProcess = 2
    /\ last.step = "spawn"
    /\ processManager.spawned[1].promise = "rejected"
    /\ processManager.spawned[2].promise = "resolved"

(***************************************************************************)
(* The children of one executeOperation call.                              *)
(***************************************************************************)
\* C23: an executeOperation call spawns one child when the Godot path is
\* known and none when it is not, and no event of the child (its error, its
\* output on stderr, its close with whatever code) makes the call spawn again.
C23_OneChildPerCall ==
    /\ [](\A c \in Calls :
            exec[c].st # "none" =>
                exec[c].spawns = IF Truthy(godotPath) THEN 1 ELSE 0)
    /\ [][\A c \in Calls :
            exec[c].st # "none" => exec'[c].spawns = exec[c].spawns]_vars

\* A call whose spawn failed: it rejected, its child closed, one spawn.
C23_Witness ==
    \E c \in Calls :
        /\ exec[c].st = "closed" /\ exec[c].spawns = 1
        /\ exec[c].fails /\ exec[c].promise = "rejected"

(***************************************************************************)
(* The captured lines of the supervised process.                           *)
(***************************************************************************)
\* A bound on the stored entries that is below what the process may write.
BufferBound == MaxLines - 1

\* C24: the output and error buffers of a supervised process are bounded:
\* the number of entries stored for it never exceeds a fixed bound, however
\* many lines the process writes.
C24_BuffersBounded ==
    \A p \in Procs : Len(child[p].output) + Len(child[p].errors) <= BufferBound

(***************************************************************************)
(* The executor with children that end: every event a child has to deliver *)
(* is delivered in the end, the data of its pipes, its error and its close. *)
(***************************************************************************)
SpecExecFair ==
    /\ SpecExec
    /\ WF_vars(ExecStdout)
    /\ WF_vars(ExecStderr)
    /\ WF_vars(ExecError)
    /\ WF_vars(ExecClose)

\* C25: a call whose child was spawned stays pending until the error event
\* or the close event of the child, no step but these two settles it, and
\* when the child's events are delivered the call settles in the end.
C25_SettlesWithTheChild ==
    /\ [][\A c \in Calls :
            (exec[c].st = "open" /\ exec[c].promise = "pending"
             /\ exec'[c].promise # "pending") =>
                \/ exec'[c].st = "closed" /\ exec'[c].promise = "resolved"
                \/ /\ exec[c].error = <<>> /\ exec'[c].error # <<>>
                   /\ exec'[c].promise = "rejected"]_vars
    /\ \A c \in Calls :
          (exec[c].st = "open") ~> (exec[c].promise # "pending")

\* The child wrote to both pipes and closed; the call is resolved.
C25_Witness ==
    \E c \in Calls :
        /\ exec[c].st = "closed" /\ exec[c].promise = "resolved"
        /\ exec[c].stdout # <<>> /\ exec[c].stderr # <<>>

(***************************************************************************)
(* ProcessManagerImpl as a registry: setActiveProcess, getActiveProcess    *)
(* and cleanup.                                                            *)
(***************************************************************************)
\* getActiveProcess()
getActiveProcess(pm) == pm.activeProcess

\* The step records the process returned (id).
GetActiveProcess ==
    /\ last' = Step("getActiveProcess", getActiveProcess(processManager),
                    NoArguments, <<>>, processManager.activeProcess, NoResult)
    /\ UNCHANGED <<godotPath, supervisor, exec, pure, processManager>>

NextRegistry == SetActiveProcess \/ GetActiveProcess \/ Cleanup

SpecRegistry == Init /\ [][NextRegistry]_vars

\* C26: the registry is one slot and the last write wins: setActiveProcess(Q)
\* puts Q in the slot whatever the slot held and sends no signal to any
\* process; getActiveProcess returns the process in the slot and changes
\* nothing.
C26_LastWriteWins ==
    [][/\ last'.step = "setActiveProcess" =>
             /\ processManager'.activeProcess = last'.id
             /\ getActiveProcess(processManager') = last'.id
             /\ processManager'.kills = processManager.kills
       /\ last'.step = "getActiveProcess" =>
             /\ last'.id = processManager.activeProcess
             /\ processManager' = processManager]_vars

\* The slot held process 1 and setActiveProcess(2) was called: 2 is in the
\* slot and 1 was never signalled.
C26_Witness ==
    /\ last.step = "setActiveProcess" /\ last.prev = 1 /\ last.id = 2
    /\ processManager.activeProcess = 2
    /\ processManager.kills[1] = 0

(***************************************************************************)
(* Line capture: what the data listeners of run_project store for the      *)
(* bytes of a pipe, delivered as one chunk and delivered as two.           *)
(***************************************************************************)
\* A listener that stores the complete lines of a chunk only.
captureWholeLines(lines, data) ==
    lines \o SubSeq(split(toString(data)), 1, Len(split(toString(data))) - 1)

\* const lines = data.toString().split('\n'); output.push(...lines)
capture(lines, data) == lines \o split(toString(data))

PipeBytes == {"a", "\n", "0xC3", "0xA9"}

\* The bytes of a pipe and the place the OS cuts them into chunks; a cut at
\* the end is the delivery as one chunk.
Deliveries ==
    { [data |-> d, cut |-> k] :
          d \in Words(PipeBytes, MaxChunk) \ {<<>>}, k \in 1..MaxChunk }

InitCapture ==
    /\ Constructed /\ godotPath = <<"godot">>
    /\ operand \in {d \in Deliveries : d.cut <= Len(d.data)}
    /\ returned = <<>>

\* returned: the entries stored for the one chunk, and the entries stored
\* for the two chunks.
Capture ==
    /\ returned = <<>>
    /\ returned' =
           << capture(<<>>, operand.data),
              IF operand.cut = Len(operand.data)
              THEN capture(<<>>, operand.data)
              ELSE capture(capture(<<>>, SubSeq(operand.data, 1, operand.cut)),
                           SubSeq(operand.data, operand.cut + 1,
                                  Len(operand.data))) >>
    /\ UNCHANGED <<godotPath, supervisor, last, exec, operand, processManager>>

NextCapture == Capture

SpecCapture == InitCapture /\ [][NextCapture]_vars

\* Array.prototype.join('\n')
RECURSIVE JoinLines(_)
JoinLines(lines) ==
    IF lines = <<>> THEN <<>>
    ELSE IF Len(lines) = 1 THEN lines[1]
    ELSE lines[1] \o <<"\n">> \o JoinLines(Tail(lines))

\* C27: the entries stored for a chunk, joined with newline, are the text of
\* the chunk: no character is dropped, and the text after the last newline
\* is an entry of its own.
C27_NoCharacterDropped ==
    returned # <<>> =>
        /\ JoinLines(returned[1]) = toString(operand.data)
        /\ \A i \in 1..Len(returned[1]) :
              \A j \in 1..Len(returned[1][i]) : returned[1][i][j] # "\n"

\* The chunk a, newline, a: the entries are a and the fragment a.
C27_Witness ==
    /\ returned # <<>>
    /\ operand.data = <<"a", "\n", "a">>
    /\ returned[1] = << <<"a">>, <<"a">> >>

\* C28: the captured lines do not depend on the chunking: the bytes of a
\* pipe delivered as two consecutive chunks give the same entries as the
\* bytes delivered as one chunk.
C28_ChunkingIndependent ==
    returned # <<>> => returned[2] = returned[1]

(***************************************************************************)
(* Reading the captured lines of the process in the slot.                  *)
(***************************************************************************)
IsPrefix(a, b) == Len(a) <= Len(b) /\ SubSeq(b, 1, Len(a)) = a

\* C29: the buffers of a running process only grow at the end; with a
\* process in the slot get_debug_output returns at once the entries captured
\* so far, all of them and in order, and changes neither the slot nor any
\* buffer: what an earlier read returned is a prefix of what a later read of
\* the same process returns.
C29_ReadsAreAppendOnly ==
    [][/\ \A p \in Procs :
             (child[p].st = "running" /\ child'[p].st = "running") =>
                 /\ IsPrefix(child[p].output, child'[p].output)
                 /\ IsPrefix(child[p].errors, child'[p].errors)
       /\ (last'.step = "get_debug_output" /\ activeProcess # 0) =>
             /\ last'.result =
                    Response("return", linesResponse(
                        <<>>, child[activeProcess].output,
                        child[activeProcess].errors))
             /\ child' = child
             /\ activeProcess' = activeProcess]_vars

\* A read of a process that has written to both pipes.
C29_Witness ==
    /\ last.step = "get_debug_output" /\ activeProcess # 0
    /\ last.pre = activeProcess
    /\ last.result.resp.output = child[activeProcess].output
    /\ last.result.resp.errors = child[activeProcess].errors
    /\ child[activeProcess].output # <<>>
    /\ child[activeProcess].errors # <<>>

(***************************************************************************)
(* executeOperation from the conversion of the parameters to the argument  *)
(* vector, step by step.  returned holds what the call has computed so     *)
(* far: the converted bag with the number of conversions made (history),   *)
(* and then the argument vector.                                           *)
(***************************************************************************)
\* A payload made of the bag the caller passed.
paramsJsonOfOriginal(params, snakeCaseParams) == stringify(params)

\* const paramsJson = JSON.stringify(snakeCaseParams)
paramsJson(params, snakeCaseParams) == stringify(snakeCaseParams)

InitPayload ==
    /\ Constructed /\ godotPath = <<"godot">>
    /\ operand \in OperationCalls
    /\ returned = <<>>

\* const snakeCaseParams = this.parameterMapper.convertCamelToSnakeCase(params)
ConvertParams ==
    /\ Len(returned) = 0
    /\ returned' = <<[snakeCaseParams |-> normalize(operand.params),
                      conversions |-> 1]>>
    /\ UNCHANGED <<godotPath, supervisor, last, exec, operand, processManager>>

\* const paramsJson = ...; const debugArgs = ...; const args = [...]
BuildArgs ==
    /\ Len(returned) = 1
    /\ returned' =
           Append(returned,
                  << <<"--headless">>, <<"--path">>, operand.projectPath,
                     <<"--script">>, operationsScriptPath, operand.operation,
                     paramsJson(operand.params, returned[1].snakeCaseParams) >>
                  \o (IF operand.godotDebugMode THEN << <<"--debug-godot">> >>
                      ELSE <<>>))
    /\ UNCHANGED <<godotPath, supervisor, last, exec, operand, processManager>>

NextPayload == ConvertParams \/ BuildArgs

SpecPayload == InitPayload /\ [][NextPayload]_vars

\* C30: a call converts its parameter bag once, and the payload in its
\* argument vector is the serialization of the converted bag: of no other
\* bag, and so not of the caller's bag when the conversion changes a key.
C30_PayloadOfNormalizedBag ==
    /\ Len(returned) >= 1 =>
          /\ returned[1].conversions = 1
          /\ returned[1].snakeCaseParams = normalize(operand.params)
    /\ Len(returned) = 2 =>
          /\ returned[2][7] = stringify(normalize(operand.params))
          /\ normalize(operand.params) # operand.params =>
                returned[2][7] # stringify(operand.params)

\* The bag {bB: "xY"}: the payload has the key b_b.
C30_Witness ==
    /\ Len(returned) = 2
    /\ operand.params = Bag(<<Entry(<<"b", "B">>, Scalar(<<"x", "Y">>))>>)
    /\ returned[2][7] =
           <<"{", "\"", "b", "_", "b", "\"", ":", "\"", "x", "Y", "\"", "}">>

(***************************************************************************)
(* The two UID tools on a project that passes their checks, for the text   *)
(* that '"godot" --version' prints.  operand is the text without its final *)
(* newline; returned holds the tool and what its handler came to.          *)
(***************************************************************************)
MaxVersion == 4

VersionChars == {"0", "1", "4", "5", ".", "v"}

VersionTexts == UNION {[1..n -> VersionChars] : n \in 0..MaxVersion}

InitUid ==
    /\ Constructed /\ godotPath = <<"godot">>
    /\ operand \in VersionTexts
    /\ returned = <<>>

UidGetUid ==
    \E call \in SettledCalls :
        /\ returned' = <<[tool |-> "get_uid",
                          h |-> handleGetUid(
                                    [projectPath |-> <<"p">>, filePath |-> <<"s">>],
                                    Resolved(operand \o <<"\n">>), call)]>>
        /\ UNCHANGED <<godotPath, supervisor, last, exec, operand, processManager>>

UidUpdateProjectUids ==
    \E call \in SettledCalls :
        /\ returned' = <<[tool |-> "update_project_uids",
                          h |-> handleUpdateProjectUids(
                                    [projectPath |-> <<"p">>],
                                    Resolved(operand \o <<"\n">>), call)]>>
        /\ UNCHANGED <<godotPath, supervisor, last, exec, operand, processManager>>

NextUid == UidGetUid \/ UidUpdateProjectUids

SpecUid == InitUid /\ [][NextUid]_vars

\* The text starts with i digits, a dot and j digits (the longest there are),
\* and the two numbers are 4.4 or later.
StartsWithVersion(v, i, j) ==
    /\ i >= 1 /\ j >= 1 /\ i + 1 + j <= Len(v)
    /\ \A k \in 1..i : IsDigit(v[k])
    /\ v[i + 1] = "."
    /\ \A k \in (i + 2)..(i + 1 + j) : IsDigit(v[k])
    /\ (i + 1 + j < Len(v)) => ~IsDigit(v[i + 2 + j])

Is44OrLater(v) ==
    \E i \in 1..Len(v), j \in 1..Len(v) :
        /\ StartsWithVersion(v, i, j)
        /\ LET major == parseInt(SubSeq(v, 1, i))
               minor == parseInt(SubSeq(v, i + 2, i + 1 + j))
           IN  major > 4 \/ (major = 4 /\ minor >= 4)

InvokesOperation(h) ==
    \E k \in 1..Len(h.spawns) : h.spawns[k].by = "executeOperation"

\* C31: get_uid and update_project_uids invoke the operation exactly when the
\* version text starts with major.minor digits that are 4.4 or later; for any
\* other text they return an error response and invoke nothing.
C31_UidNeeds44 ==
    returned # <<>> =>
        LET h == returned[1].h
        IN  /\ InvokesOperation(h) <=> Is44OrLater(operand)
            /\ ~Is44OrLater(operand) =>
                  /\ h.outcome.k = "return"
                  /\ h.outcome.resp.isError
                  /\ h.spawns = <<VersionProbe>>

\* Version 4.10: the minor number is compared as a number, and the operation
\* is invoked.
C31_Witness ==
    /\ returned # <<>>
    /\ returned[1].tool = "get_uid"
    /\ operand = <<"4", ".", "1", "0">>
    /\ InvokesOperation(returned[1].h)

(***************************************************************************)
(* The events of a process that is not the one in the slot.                *)
(***************************************************************************)
\* The last step was the exit or error event of a process other than the one
\* the slot held.
StaleEvent ==
    /\ last.step \in {"exit", "error"}
    /\ last.pre # 0
    /\ last.pre # last.id

\* C32: the exit or error event of a process that is not the one in the slot
\* leaves the slot as it was: a newer process in the slot stays there.
C32_StaleEventKeepsSlot ==
    /\ StaleEvent => activeProcess = last.pre
    /\ (last.step \in {"exit", "error"} /\ last.pre = 0) => activeProcess = 0

\* A replaced process exits while its successor runs in the slot.
C32_Witness ==
    /\ last.step = "exit"
    /\ last.pre # 0 /\ last.pre # last.id
    /\ child[last.id].killed
    /\ activeProcess = last.pre
    /\ child[activeProcess].st = "running"

(***************************************************************************)
(* GodotServer: the SIGINT listener.  It runs cleanup(), which calls the   *)
(* cleanup() of the server's ProcessManagerImpl and closes the MCP server, *)
(* and then the process exits.  The ProjectHandler is constructed without  *)
(* the process manager and keeps its slot to itself; nothing in the server *)
(* calls setActiveProcess.                                                 *)
(***************************************************************************)
ShutDown == last.step = "SIGINT"

\* process.on('SIGINT'): await this.cleanup(); process.exit(0)
OnSIGINT ==
    /\ ~ShutDown
    /\ processManager' = cleanup(processManager)
    /\ last' = Step("SIGINT", 0, NoArguments, <<>>, 0, NoResult)
    /\ UNCHANGED <<godotPath, supervisor, exec, pure>>

\* The server handles requests and events until it has shut down.
Serving == ~ShutDown /\ Next

NextShutdown == Serving \/ OnSIGINT

SpecShutdown == Init /\ [][NextShutdown]_vars

\* C33: after the server's cleanup on SIGINT every process that run_project
\* started and that is still running has been sent a terminate signal.
C33_ShutdownTerminatesRunning ==
    ShutDown => \A p \in Procs : child[p].st = "running" => child[p].killed

(***************************************************************************)
(* run_project requests that are turned down before the spawn.             *)
(***************************************************************************)
\* The project path is missing or unsafe, the directory holds no
\* project.godot, or there is no path of the Godot executable.
RunRejected(args) ==
    /\ Given(args)
    /\ \/ ~Truthy(args.projectPath)
       \/ ~validatePath(args.projectPath)
       \/ ~existsSync(join(args.projectPath, <<"project.godot">>))
       \/ ~Truthy(godotPath)

\* C34: a run_project request that is turned down before the spawn spawns
\* nothing and leaves the slot, every process (signalled or not) and the
\* captured lines as they were; the client gets an error response.
C34_RejectedRunChangesNothing ==
    [][(last'.step = "run_project" /\ RunRejected(last'.args)) =>
          /\ last'.spawns = <<>>
          /\ last'.result.k = "response" /\ last'.result.resp.isError
          /\ activeProcess' = activeProcess
          /\ child' = child]_vars

\* A request for a directory that is no project, while a process that has
\* written a line runs in the slot, unsignalled.
C34_Witness ==
    /\ last.step = "run_project" /\ RunRejected(last.args)
    /\ last.args.projectPath = <<"q">>
    /\ activeProcess # 0 /\ last.pre = activeProcess
    /\ child[activeProcess].st = "running"
    /\ ~child[activeProcess].killed
    /\ child[activeProcess].output # <<>>

(***************************************************************************)
(* Every tool next to a supervised process that writes.                    *)
(***************************************************************************)
NextSupervisedTools == NextTools \/ ChildStdout

SpecSupervisedTools == Init /\ [][NextSupervisedTools]_vars

\* The tools that are answered in one step: all but the three project tools.
OneShotTools ==
    DiscreteTools \cup {"launch_editor", "get_godot_version", "list_projects",
                        "get_project_info"}

\* C35: a discrete operation, launch_editor, get_godot_version, list_projects
\* or get_project_info leaves the slot, the supervised processes and their
\* captured lines as they were, whatever its outcome; the slot changes only
\* when a run_project request settles on its spawn event, in stop_project,
\* and in the exit or error event of the process in the slot.
C35_OneShotToolsKeepSlot ==
    [][/\ last'.step \in OneShotTools =>
              /\ activeProcess' = activeProcess
              /\ child' = child
       /\ activeProcess' # activeProcess =>
              last'.step \in {"spawn", "stop_project", "exit", "error"}]_vars

\* A discrete operation that spawned its child and failed, next to a running
\* process that has written a line.
C35_Witness ==
    /\ last.step \in DiscreteTools
    /\ last.spawns # <<>>
    /\ last.result.resp.isError
    /\ activeProcess # 0 /\ last.pre = activeProcess
    /\ child[activeProcess].st = "running"
    /\ child[activeProcess].output # <<>>

(***************************************************************************)
(* executeOperation calls in flight at the same time: the request handler  *)
(* is asynchronous, so a second tool call may start its child while the    *)
(* first call's child is still writing.                                    *)
(***************************************************************************)
MaxConcurrent == 2

Concurrent == 1..MaxConcurrent

InitConcurrent ==
    /\ godotPath \in {undefined, <<"godot">>}
    /\ activeProcess = 0
    /\ child = [p \in Procs |-> NoChild]
    /\ overlap = {}
    /\ last = Step("init", 0, NoArguments, <<>>, 0, NoResult)
    /\ exec = [c \in Concurrent |-> NoCall]
    /\ processManager =
           [activeProcess |-> 0, kills |-> [p \in Procs |-> 0],
            spawned |-> [p \in Procs |-> [st |-> "none", promise |-> "none"]]]
    /\ operand = <<>> /\ returned = <<>>

\* The number of characters the children of the calls so far write.
RECURSIVE WrittenBy(_)
WrittenBy(n) ==
    IF n = 0 THEN 0
    ELSE Len(exec[n].outText) + Len(exec[n].errText) + WrittenBy(n - 1)

\* A call starts whatever the other calls are doing.  The children write
\* MaxText characters at most between them.
ConcurrentExecute ==
    \E c \in Concurrent :
        /\ exec[c].st = "none"
        /\ \A d \in Concurrent : d < c => exec[d].st # "none"
        /\ \E fails \in BOOLEAN, outText \in Texts(MaxText - WrittenBy(MaxConcurrent)) :
           \E errText \in Texts(MaxText - WrittenBy(MaxConcurrent) - Len(outText)) :
              executeOperation(c, fails, outText, errText)

ConcurrentStdout ==
    \E c \in Concurrent : \E n \in 1..Len(exec[c].outPipe) : onExecStdout(c, n)
ConcurrentStderr ==
    \E c \in Concurrent : \E n \in 1..Len(exec[c].errPipe) : onExecStderr(c, n)
ConcurrentError == \E c \in Concurrent : onExecError(c)
ConcurrentClose ==
    \E c \in Concurrent, code \in CloseCodes \cup {<<ENOENT>>} : onExecClose(c, code)

NextConcurrent ==
    \/ ConcurrentExecute
    \/ ConcurrentStdout
    \/ ConcurrentStderr
    \/ ConcurrentError
    \/ ConcurrentClose

SpecConcurrent == InitConcurrent /\ [][NextConcurrent]_vars

\* No character of the text takes more than one byte.
OneByteText(text) == Encode(text) = text

\* What the call has heard grows by the decoding of the first bytes of its
\* own pipe, which leave the pipe.
HeardOwn(before, after, pipeBefore, pipeAfter) ==
    \E n \in 0..Len(pipeBefore) :
        /\ pipeAfter = SubSeq(pipeBefore, n + 1, Len(pipeBefore))
        /\ after = before \o toString(SubSeq(pipeBefore, 1, n))

\* C36: calls in flight at the same time do not interfere.  A step changes
\* the record of one call only; what a call has heard on stdout and stderr
\* grows only by what its own child's pipes deliver; a call resolves with
\* what it has heard and the code of its own child; and a call whose child
\* wrote one-byte characters resolves with exactly the text its child wrote,
\* whatever the other children wrote.
C36_ConcurrentCallsIsolated ==
    /\ [][\A c \in Concurrent :
             exec'[c] # exec[c] =>
                /\ \A d \in Concurrent \ {c} : exec'[d] = exec[d]
                /\ exec[c].st = "open" =>
                      /\ HeardOwn(exec[c].stdout, exec'[c].stdout,
                                  exec[c].outPipe, exec'[c].outPipe)
                      /\ HeardOwn(exec[c].stderr, exec'[c].stderr,
                                  exec[c].errPipe, exec'[c].errPipe)
                /\ exec[c].st # "open" =>
                      exec'[c].stdout = <<>> /\ exec'[c].stderr = <<>>
                /\ (exec[c].promise = "pending" /\ exec'[c].promise = "resolved") =>
                      exec'[c].result =
                          <<ExecutionResult(exec[c].stdout, exec[c].stderr,
                                            exec'[c].code)>>]_vars
    /\ [](\A c \in Concurrent :
             (/\ exec[c].promise = "resolved"
              /\ OneByteText(exec[c].outText) /\ OneByteText(exec[c].errText)) =>
                 /\ exec[c].result[1].stdout = exec[c].outText
                 /\ exec[c].result[1].stderr = exec[c].errText)

\* Two calls are in flight together, their pipes drained: the first has
\* heard the "a" its child wrote on stdout, the second the character its
\* child wrote on stderr, and neither anything of the other.
C36_Witness ==
    /\ exec[1].st = "open" /\ exec[2].st = "open"
    /\ exec[1].outPipe = <<>> /\ exec[2].errPipe = <<>>
    /\ exec[1].outText = <<"a">> /\ exec[1].stdout = <<"a">>
    /\ exec[1].stderr = <<>>
    /\ exec[2].errText = <<"U+00E9">> /\ exec[2].stderr = <<"U+00E9">>
    /\ exec[2].stdout = <<>>

(***************************************************************************)
(* The path values in the command line and the payload of a spawned child. *)
(***************************************************************************)
\* The values a spawn takes from the call: the elements of the argument
\* vector of a spawn(), the project path and the path parameters of an
\* executeOperation(); the version probe takes none.
PlacedValues(s) ==
    CASE s.by = "spawn" -> {s.args[i] : i \in 1..Len(s.args)}
      [] s.by = "executeOperation" ->
            {s.args.projectPath}
            \cup {s.args.params[f] : f \in PathParameters \cap DOMAIN s.args.params}
      [] OTHER -> {}

\* The path values of the call that fail the path-safety check.
UnsafeValues(args) ==
    IF ~Given(args) THEN {}
    ELSE {args[f] : f \in {g \in PathParameters \cap DOMAIN args :
                              Truthy(args[g]) /\ ~validatePath(args[g])}}

\* C37: every value that run_project, launch_editor or a discrete operation
\* places in the argument vector or the payload of a child it spawns passed
\* validatePath, and no path value of the call that fails the check is among
\* them.
C37_NoUnsafePathInSpawn ==
    \A k \in 1..Len(last.spawns) :
        /\ \A v \in PlacedValues(last.spawns[k]) : validatePath(v)
        /\ PlacedValues(last.spawns[k]) \cap UnsafeValues(last.args) = {}

\* run_project with the scene '../s': the child is spawned on the project
\* and the scene is left out of its argument vector.
C37_Witness ==
    /\ last.step = "run_project"
    /\ Get(last.args, "scene") = <<".", ".", "/", "s">>
    /\ last.spawns = <<Spawned("spawn", << <<"-d">>, <<"--path">>, <<"p">> >>)>>

====
